---- MODULE Spec2Model ----
(***************************************************************************)
(* A model of the msi-ec driver (src/msi-ec.c): the embedded controller's  *)
(* register space, the transport (ec_read / ec_write) with its faults, the *)
(* sequential reader and every sysfs / LED handler as one atomic call.     *)
(*                                                                         *)
(* Text (sysfs input and output, firmware strings) is a sequence of ASCII  *)
(* codes; a register holds a byte 0..255.                                  *)
(***************************************************************************)
EXTENDS Integers, Sequences, FiniteSets, TLC

(***************************************************************************)
(* constants.h is not part of the sources at hand: the values below are    *)
(* the hardware configuration the driver is compiled against.  The fan     *)
(* base range of basic_fan_speed is the one the specification states.      *)
(***************************************************************************)
MSI_EC_CHARGE_CONTROL_ADDRESS == 239
MSI_EC_CHARGE_CONTROL_OFFSET_START == 138
MSI_EC_CHARGE_CONTROL_OFFSET_END == 128
MSI_EC_CHARGE_CONTROL_RANGE_MIN == 138
MSI_EC_CHARGE_CONTROL_RANGE_MAX == 228
MSI_EC_WEBCAM_ADDRESS == 46
MSI_EC_WEBCAM_ON == 74
MSI_EC_WEBCAM_OFF == 72
MSI_EC_FN_WIN_ADDRESS == 191
MSI_EC_FN_KEY_LEFT == 64
MSI_EC_FN_KEY_RIGHT == 80
MSI_EC_WIN_KEY_LEFT == 80
MSI_EC_WIN_KEY_RIGHT == 64
MSI_EC_BATTERY_MODE_ADDRESS == 215
MSI_EC_BATTERY_MODE_MAX_CHARGE == 228
MSI_EC_BATTERY_MODE_MEDIUM_CHARGE == 208
MSI_EC_BATTERY_MODE_MIN_CHARGE == 188
MSI_EC_COOLER_BOOST_ADDRESS == 152
MSI_EC_COOLER_BOOST_ON == 130
MSI_EC_COOLER_BOOST_OFF == 2
MSI_EC_SHIFT_MODE_ADDRESS == 210
MSI_EC_SHIFT_MODE_PERFORMANCE == 196
MSI_EC_SHIFT_MODE_BALANCED == 193
MSI_EC_SHIFT_MODE_ECO == 194
MSI_EC_SHIFT_MODE_OFF == 128
MSI_EC_FAN_MODE_ADDRESS == 212
MSI_EC_FAN_MODE_SILENT == 29
MSI_EC_FAN_MODE_BASIC == 77
MSI_EC_FAN_MODE_ADVANCED == 141
MSI_EC_FW_VERSION_ADDRESS == 160
MSI_EC_FW_VERSION_LENGTH == 12
MSI_EC_FW_DATE_ADDRESS == 172
MSI_EC_FW_DATE_LENGTH == 8
MSI_EC_FW_TIME_ADDRESS == 180
MSI_EC_FW_TIME_LENGTH == 8
MSI_EC_CPU_REALTIME_TEMPERATURE_ADDRESS == 104
MSI_EC_CPU_REALTIME_FAN_SPEED_ADDRESS == 113
MSI_EC_CPU_REALTIME_FAN_SPEED_BASE_MIN == 25
MSI_EC_CPU_REALTIME_FAN_SPEED_BASE_MAX == 55
MSI_EC_CPU_BASIC_FAN_SPEED_ADDRESS == 137
MSI_EC_CPU_BASIC_FAN_SPEED_BASE_MIN == 0
MSI_EC_CPU_BASIC_FAN_SPEED_BASE_MAX == 150
MSI_EC_GPU_REALTIME_TEMPERATURE_ADDRESS == 128
MSI_EC_GPU_REALTIME_FAN_SPEED_ADDRESS == 139
MSI_EC_LED_MICMUTE_ADDRESS == 43
MSI_EC_LED_MUTE_ADDRESS == 44
MSI_EC_MIC_LED_STATE_ON == 130
MSI_EC_MIC_LED_STATE_OFF == 128
MSI_EC_MUTE_LED_STATE_ON == 129
MSI_EC_MUTE_LED_STATE_OFF == 131
MSI_EC_KBD_BL_ADDRESS == 243
MSI_EC_KBD_BL_STATE_MASK == 3
MSI_EC_KBD_BL_STATE == <<128, 129, 130, 131>>

(***************************************************************************)
(* errno values the handlers return, and the faults of the transport.      *)
(***************************************************************************)
EINVAL == 22
ERANGE == 34
ENODEV == 19
ETIME == 62

\* What ec_read / ec_write can return: 0, or a negative errno.
EACCES == 13
ENOMEM == 12
EIO == 5
FaultCodes == {-ENODEV, -ETIME}
Results == {0} \cup FaultCodes

Byte == 0..255
u8(n) == n % 256

(***************************************************************************)
(* Text.                                                                   *)
(***************************************************************************)
NUL == 0
NL == 10
SPACE == 32
IsDigit(c) == c >= 48 /\ c <= 57
IsSpace(c) == c \in {9, 10, 11, 12, 13, 32, 160}

s_on == <<111, 110>>
s_off == <<111, 102, 102>>
s_left == <<108, 101, 102, 116>>
s_right == <<114, 105, 103, 104, 116>>
s_max == <<109, 97, 120>>
s_medium == <<109, 101, 100, 105, 117, 109>>
s_min == <<109, 105, 110>>
s_performance == <<112, 101, 114, 102, 111, 114, 109, 97, 110, 99, 101>>
s_balanced == <<98, 97, 108, 97, 110, 99, 101, 100>>
s_eco == <<101, 99, 111>>
s_silent == <<115, 105, 108, 101, 110, 116>>
s_basic == <<98, 97, 115, 105, 99>>
s_advanced == <<97, 100, 118, 97, 110, 99, 101, 100>>
s_unknown == <<117, 110, 107, 110, 111, 119, 110>>

\* The C string a buffer holds: its bytes before the first NUL.
RECURSIVE CStr(_)
CStr(s) ==
  IF s = <<>> \/ Head(s) = NUL THEN <<>> ELSE <<Head(s)>> \o CStr(Tail(s))

\* The decimal digits of n >= 0.
RECURSIVE Digits(_)
Digits(n) ==
  IF n < 10 THEN <<48 + n>> ELSE Digits(n \div 10) \o <<48 + (n % 10)>>

RECURSIVE Zeros(_)
Zeros(k) == IF k <= 0 THEN <<>> ELSE <<48>> \o Zeros(k - 1)

\* printf's %i / %d.
FmtInt(n) == IF n < 0 THEN <<45>> \o Digits(-n) ELSE Digits(n)

\* printf's %0wd: zero padding between the sign and the digits.
FmtPad(n, w) ==
  LET d == Digits(IF n < 0 THEN -n ELSE n)
      sign == IF n < 0 THEN <<45>> ELSE <<>>
  IN sign \o Zeros(w - Len(sign) - Len(d)) \o d

\* streq(x, y): strcmp(x, y) == 0 || strcmp(x, y "\n") == 0.
\* Sensitivity variant of streq: the comparison without sysfs_streq's
\* tolerance of one trailing newline.
streq_exact(x, y) == CStr(x) = y

streq(x, y) == CStr(x) = y \/ CStr(x) = y \o <<NL>>

(***************************************************************************)
(* The register space and the last call.                                   *)
(***************************************************************************)
VARIABLES
  ec,      \* the embedded controller's registers: address -> byte
  op,      \* the handler called last ("none" before the first call)
  arg,     \* its input: the text written, the brightness, <<>> for a get
  ret,     \* what it returned
  out,     \* the text it put in the caller's buffer (<<>>: buffer untouched)
  xfer,    \* the transport calls it issued, in order
  plan,    \* the transport results the hardware had in store for the call
  prior,   \* the successful set that immediately preceded a get, or NoCall
  ncalls,  \* calls made so far
  mod,     \* what the module has registered with the kernel
  race     \* a sequential read in progress beside other callers' writes

vars == <<ec, op, arg, ret, out, xfer, plan, prior, ncalls, mod, race>>

NoCall == [op |-> "none", arg |-> <<>>]

\* One transport call, as the handler saw it.
Rd(a, v, rc) == [k |-> "r", a |-> a, v |-> v, rc |-> rc]
Wr(a, v, rc) == [k |-> "w", a |-> a, v |-> v, rc |-> rc]

\* What a handler did: its return value, its output, its transport calls and
\* the registers it leaves.
Eff(r, o, x, e) == [ret |-> r, out |-> o, xfer |-> x, ec |-> e]

\* ec_write(addr, val) with the hardware answering rc.
ec_write(e, addr, val, rc) ==
  [result |-> rc,
   x |-> Wr(addr, val, rc),
   ec |-> IF rc < 0 THEN e ELSE [e EXCEPT ![addr] = val]]

\* ec_read(addr, &val) with the hardware answering rc.
ec_read(e, addr, rc) ==
  [result |-> rc,
   val |-> IF rc < 0 THEN 0 ELSE e[addr],
   x |-> Rd(addr, IF rc < 0 THEN 0 ELSE e[addr], rc)]

(***************************************************************************)
(* ec_read_seq(addr, buf, len): pat[i + 1] is the hardware's answer to the *)
(* read of byte i.  buf is the caller's zeroed buffer as the reader leaves *)
(* it.                                                                     *)
(***************************************************************************)
RECURSIVE ec_read_seq_from(_, _, _, _, _, _, _)
\* Sensitivity variant of the ec_read_seq loop: the result of ec_read is not
\* tested, and the loop reads on after a fault.
ec_read_seq_from_continue(e, addr, len, pat, i, buf, x) ==
  IF i >= len THEN [result |-> 0, buf |-> buf, xfer |-> x]
  ELSE LET r == ec_read(e, u8(addr + i), pat[i + 1])
       IN ec_read_seq_from(e, addr, len, pat, u8(i + 1),
                           [buf EXCEPT ![i + 1] = r.val], Append(x, r.x))

\* Sensitivity variant of the ec_read_seq loop: every iteration reads addr
\* instead of addr + i.
ec_read_seq_from_same_addr(e, addr, len, pat, i, buf, x) ==
  IF i >= len THEN [result |-> 0, buf |-> buf, xfer |-> x]
  ELSE LET r == ec_read(e, addr, pat[i + 1])
       IN IF r.result < 0
          THEN [result |-> r.result, buf |-> buf, xfer |-> Append(x, r.x)]
          ELSE ec_read_seq_from(e, addr, len, pat, u8(i + 1),
                                [buf EXCEPT ![i + 1] = r.val], Append(x, r.x))

ec_read_seq_from(e, addr, len, pat, i, buf, x) ==
  IF i >= len THEN [result |-> 0, buf |-> buf, xfer |-> x]
  ELSE LET r == ec_read(e, u8(addr + i), pat[i + 1])
       IN IF r.result < 0
          THEN [result |-> r.result, buf |-> buf, xfer |-> Append(x, r.x)]
          ELSE ec_read_seq_from(e, addr, len, pat, u8(i + 1),
                                [buf EXCEPT ![i + 1] = r.val], Append(x, r.x))

\* ec_read_seq that drops the fault of a failed read and reports success.
ec_read_seq_swallow(e, addr, len, pat) ==
  [ec_read_seq_from(e, addr, len, pat, 0, [j \in 1..len |-> 0], <<>>)
     EXCEPT !.result = 0]

ec_read_seq(e, addr, len, pat) ==
  ec_read_seq_from(e, addr, len, pat, 0, [j \in 1..len |-> 0], <<>>)

(***************************************************************************)
(* Sysfs power_supply subsystem: the charge thresholds.                    *)
(***************************************************************************)

\* kstrtou8(buf, 10, &wdata): an optional '+', decimal digits, an optional
\* final newline, and nothing else; the value must fit 8 bits.
RECURSIVE DigitPrefix(_)
DigitPrefix(s) ==
  IF s = <<>> \/ ~IsDigit(Head(s)) THEN <<>>
  ELSE <<Head(s)>> \o DigitPrefix(Tail(s))

RECURSIVE DigitsValue(_, _)
DigitsValue(s, acc) ==
  IF s = <<>> THEN acc ELSE DigitsValue(Tail(s), 10 * acc + (Head(s) - 48))

kstrtou8(buf) ==
  LET s0 == CStr(buf)
      s1 == IF s0 # <<>> /\ Head(s0) = 43 THEN Tail(s0) ELSE s0
      d == DigitPrefix(s1)
      rest == SubSeq(s1, Len(d) + 1, Len(s1))
      rest1 == IF rest # <<>> /\ Head(rest) = NL THEN Tail(rest) ELSE rest
      v == DigitsValue(d, 0)
  IN IF d = <<>> THEN [result |-> -EINVAL, val |-> 0]
     ELSE IF rest1 # <<>> THEN [result |-> -EINVAL, val |-> 0]
     ELSE IF v > 255 THEN [result |-> -ERANGE, val |-> 0]
     ELSE [result |-> 0, val |-> v]

\* Sensitivity variant of charge_control_threshold_show: the byte printed
\* without subtracting the offset.
charge_control_threshold_show_raw(offset, e, rc) ==
  LET r == ec_read(e, MSI_EC_CHARGE_CONTROL_ADDRESS, rc)
  IN IF r.result < 0 THEN Eff(r.result, <<>>, <<r.x>>, e)
     ELSE LET o == FmtInt(r.val) \o <<NL>>
          IN Eff(Len(o), o, <<r.x>>, e)

charge_control_threshold_show(offset, e, rc) ==
  LET r == ec_read(e, MSI_EC_CHARGE_CONTROL_ADDRESS, rc)
  IN IF r.result < 0 THEN Eff(r.result, <<>>, <<r.x>>, e)
     ELSE LET o == FmtInt(r.val - offset) \o <<NL>>
          IN Eff(Len(o), o, <<r.x>>, e)

charge_control_start_threshold_show(e, rc) ==
  charge_control_threshold_show(MSI_EC_CHARGE_CONTROL_OFFSET_START, e, rc)

\* Sensitivity variant of charge_control_end_threshold_show: the end
\* threshold decoded with the start offset.
charge_control_end_threshold_show_start_offset(e, rc) ==
  charge_control_threshold_show(MSI_EC_CHARGE_CONTROL_OFFSET_START, e, rc)

charge_control_end_threshold_show(e, rc) ==
  charge_control_threshold_show(MSI_EC_CHARGE_CONTROL_OFFSET_END, e, rc)

charge_control_threshold_store(offset, e, buf, rc) ==
  LET p == kstrtou8(buf)
      wdata == u8(p.val + offset)
  IN IF p.result < 0 THEN Eff(p.result, <<>>, <<>>, e)
     ELSE IF wdata < MSI_EC_CHARGE_CONTROL_RANGE_MIN \/
             wdata > MSI_EC_CHARGE_CONTROL_RANGE_MAX
     THEN Eff(-EINVAL, <<>>, <<>>, e)
     ELSE LET w == ec_write(e, MSI_EC_CHARGE_CONTROL_ADDRESS, wdata, rc)
          IN IF w.result < 0 THEN Eff(w.result, <<>>, <<w.x>>, w.ec)
             ELSE Eff(Len(buf), <<>>, <<w.x>>, w.ec)

charge_control_start_threshold_store(e, buf, rc) ==
  charge_control_threshold_store(MSI_EC_CHARGE_CONTROL_OFFSET_START, e, buf, rc)

charge_control_end_threshold_store(e, buf, rc) ==
  charge_control_threshold_store(MSI_EC_CHARGE_CONTROL_OFFSET_END, e, buf, rc)

(***************************************************************************)
(* Sysfs platform device attributes (root).                                *)
(***************************************************************************)

\* The state of a store handler: `int result = -EINVAL`, nothing written yet.
Unset(e) == [result |-> -EINVAL, ec |-> e, xfer |-> <<>>]

\* `if (streq(buf, name)) result = ec_write(addr, val);`
IfStreq(st, buf, name, addr, val, rc) ==
  IF streq(buf, name)
  THEN LET w == ec_write(st.ec, addr, val, rc)
       IN [result |-> w.result, ec |-> w.ec, xfer |-> Append(st.xfer, w.x)]
  ELSE st

\* Sensitivity variant of StoreReturn: a write that faulted is issued once
\* more before the fault is returned.
StoreReturn_retry(st, buf) ==
  IF st.result < 0 THEN Eff(st.result, <<>>, st.xfer \o st.xfer, st.ec)
  ELSE Eff(Len(buf), <<>>, st.xfer, st.ec)

\* `if (result < 0) return result; return count;`
StoreReturn(st, buf) ==
  IF st.result < 0 THEN Eff(st.result, <<>>, st.xfer, st.ec)
  ELSE Eff(Len(buf), <<>>, st.xfer, st.ec)

\* sprintf(buf, "%s\n", name)
ShowName(name, x, e) == Eff(Len(name) + 1, name \o <<NL>>, x, e)

\* sprintf(buf, "%s (%i)\n", "unknown", rdata)
ShowUnknown(rdata, x, e) ==
  LET o == s_unknown \o <<SPACE, 40>> \o FmtInt(rdata) \o <<41, NL>>
  IN Eff(Len(o), o, x, e)

\* sprintf(buf, "%i\n", n)
ShowInt(n, x, e) ==
  LET o == FmtInt(n) \o <<NL>> IN Eff(Len(o), o, x, e)

webcam_show(e, rc) ==
  LET r == ec_read(e, MSI_EC_WEBCAM_ADDRESS, rc)
  IN IF r.result < 0 THEN Eff(r.result, <<>>, <<r.x>>, e)
     ELSE CASE r.val = MSI_EC_WEBCAM_ON -> ShowName(s_on, <<r.x>>, e)
            [] r.val = MSI_EC_WEBCAM_OFF -> ShowName(s_off, <<r.x>>, e)
            [] OTHER -> ShowUnknown(r.val, <<r.x>>, e)

webcam_store(e, buf, rc) ==
  LET s1 == IfStreq(Unset(e), buf, s_on, MSI_EC_WEBCAM_ADDRESS, MSI_EC_WEBCAM_ON, rc)
      s2 == IfStreq(s1, buf, s_off, MSI_EC_WEBCAM_ADDRESS, MSI_EC_WEBCAM_OFF, rc)
  IN StoreReturn(s2, buf)

fn_key_show(e, rc) ==
  LET r == ec_read(e, MSI_EC_FN_WIN_ADDRESS, rc)
  IN IF r.result < 0 THEN Eff(r.result, <<>>, <<r.x>>, e)
     ELSE CASE r.val = MSI_EC_FN_KEY_LEFT -> ShowName(s_left, <<r.x>>, e)
            [] r.val = MSI_EC_FN_KEY_RIGHT -> ShowName(s_right, <<r.x>>, e)
            [] OTHER -> ShowUnknown(r.val, <<r.x>>, e)

fn_key_store(e, buf, rc) ==
  LET s1 == IfStreq(Unset(e), buf, s_left, MSI_EC_FN_WIN_ADDRESS, MSI_EC_FN_KEY_LEFT, rc)
      s2 == IfStreq(s1, buf, s_right, MSI_EC_FN_WIN_ADDRESS, MSI_EC_FN_KEY_RIGHT, rc)
  IN StoreReturn(s2, buf)

\* Sensitivity variant of win_key_show: win_key kept in a register of its
\* own (here the webcam's) instead of MSI_EC_FN_WIN_ADDRESS.
win_key_show_own_register(e, rc) ==
  LET r == ec_read(e, MSI_EC_WEBCAM_ADDRESS, rc)
  IN IF r.result < 0 THEN Eff(r.result, <<>>, <<r.x>>, e)
     ELSE CASE r.val = MSI_EC_WIN_KEY_LEFT -> ShowName(s_left, <<r.x>>, e)
            [] r.val = MSI_EC_WIN_KEY_RIGHT -> ShowName(s_right, <<r.x>>, e)
            [] OTHER -> ShowUnknown(r.val, <<r.x>>, e)

win_key_show(e, rc) ==
  LET r == ec_read(e, MSI_EC_FN_WIN_ADDRESS, rc)
  IN IF r.result < 0 THEN Eff(r.result, <<>>, <<r.x>>, e)
     ELSE CASE r.val = MSI_EC_WIN_KEY_LEFT -> ShowName(s_left, <<r.x>>, e)
            [] r.val = MSI_EC_WIN_KEY_RIGHT -> ShowName(s_right, <<r.x>>, e)
            [] OTHER -> ShowUnknown(r.val, <<r.x>>, e)

win_key_store(e, buf, rc) ==
  LET s1 == IfStreq(Unset(e), buf, s_left, MSI_EC_FN_WIN_ADDRESS, MSI_EC_WIN_KEY_LEFT, rc)
      s2 == IfStreq(s1, buf, s_right, MSI_EC_FN_WIN_ADDRESS, MSI_EC_WIN_KEY_RIGHT, rc)
  IN StoreReturn(s2, buf)

battery_mode_show(e, rc) ==
  LET r == ec_read(e, MSI_EC_BATTERY_MODE_ADDRESS, rc)
  IN IF r.result < 0 THEN Eff(r.result, <<>>, <<r.x>>, e)
     ELSE CASE r.val = MSI_EC_BATTERY_MODE_MAX_CHARGE -> ShowName(s_max, <<r.x>>, e)
            [] r.val = MSI_EC_BATTERY_MODE_MEDIUM_CHARGE -> ShowName(s_medium, <<r.x>>, e)
            [] r.val = MSI_EC_BATTERY_MODE_MIN_CHARGE -> ShowName(s_min, <<r.x>>, e)
            [] OTHER -> ShowUnknown(r.val, <<r.x>>, e)

battery_mode_store(e, buf, rc) ==
  LET s1 == IfStreq(Unset(e), buf, s_max, MSI_EC_BATTERY_MODE_ADDRESS,
                    MSI_EC_BATTERY_MODE_MAX_CHARGE, rc)
      s2 == IfStreq(s1, buf, s_medium, MSI_EC_BATTERY_MODE_ADDRESS,
                    MSI_EC_BATTERY_MODE_MEDIUM_CHARGE, rc)
      s3 == IfStreq(s2, buf, s_min, MSI_EC_BATTERY_MODE_ADDRESS,
                    MSI_EC_BATTERY_MODE_MIN_CHARGE, rc)
  IN StoreReturn(s3, buf)

cooler_boost_show(e, rc) ==
  LET r == ec_read(e, MSI_EC_COOLER_BOOST_ADDRESS, rc)
  IN IF r.result < 0 THEN Eff(r.result, <<>>, <<r.x>>, e)
     ELSE CASE r.val = MSI_EC_COOLER_BOOST_ON -> ShowName(s_on, <<r.x>>, e)
            [] r.val = MSI_EC_COOLER_BOOST_OFF -> ShowName(s_off, <<r.x>>, e)
            [] OTHER -> ShowUnknown(r.val, <<r.x>>, e)

cooler_boost_store(e, buf, rc) ==
  LET s1 == IfStreq(Unset(e), buf, s_on, MSI_EC_COOLER_BOOST_ADDRESS,
                    MSI_EC_COOLER_BOOST_ON, rc)
      s2 == IfStreq(s1, buf, s_off, MSI_EC_COOLER_BOOST_ADDRESS,
                    MSI_EC_COOLER_BOOST_OFF, rc)
  IN StoreReturn(s2, buf)

shift_mode_show(e, rc) ==
  LET r == ec_read(e, MSI_EC_SHIFT_MODE_ADDRESS, rc)
  IN IF r.result < 0 THEN Eff(r.result, <<>>, <<r.x>>, e)
     ELSE CASE r.val = MSI_EC_SHIFT_MODE_PERFORMANCE -> ShowName(s_performance, <<r.x>>, e)
            [] r.val = MSI_EC_SHIFT_MODE_BALANCED -> ShowName(s_balanced, <<r.x>>, e)
            [] r.val = MSI_EC_SHIFT_MODE_ECO -> ShowName(s_eco, <<r.x>>, e)
            [] r.val = MSI_EC_SHIFT_MODE_OFF -> ShowName(s_off, <<r.x>>, e)
            [] OTHER -> ShowUnknown(r.val, <<r.x>>, e)

shift_mode_store(e, buf, rc) ==
  LET s1 == IfStreq(Unset(e), buf, s_performance, MSI_EC_SHIFT_MODE_ADDRESS,
                    MSI_EC_SHIFT_MODE_PERFORMANCE, rc)
      s2 == IfStreq(s1, buf, s_balanced, MSI_EC_SHIFT_MODE_ADDRESS,
                    MSI_EC_SHIFT_MODE_BALANCED, rc)
      s3 == IfStreq(s2, buf, s_eco, MSI_EC_SHIFT_MODE_ADDRESS,
                    MSI_EC_SHIFT_MODE_ECO, rc)
      s4 == IfStreq(s3, buf, s_off, MSI_EC_SHIFT_MODE_ADDRESS,
                    MSI_EC_SHIFT_MODE_OFF, rc)
  IN StoreReturn(s4, buf)

fan_mode_show(e, rc) ==
  LET r == ec_read(e, MSI_EC_FAN_MODE_ADDRESS, rc)
  IN IF r.result < 0 THEN Eff(r.result, <<>>, <<r.x>>, e)
     ELSE CASE r.val = MSI_EC_FAN_MODE_SILENT -> ShowName(s_silent, <<r.x>>, e)
            [] r.val = MSI_EC_FAN_MODE_BASIC -> ShowName(s_basic, <<r.x>>, e)
            [] r.val = MSI_EC_FAN_MODE_ADVANCED -> ShowName(s_advanced, <<r.x>>, e)
            [] OTHER -> ShowUnknown(r.val, <<r.x>>, e)

fan_mode_store(e, buf, rc) ==
  LET s1 == IfStreq(Unset(e), buf, s_silent, MSI_EC_FAN_MODE_ADDRESS,
                    MSI_EC_FAN_MODE_SILENT, rc)
      s2 == IfStreq(s1, buf, s_basic, MSI_EC_FAN_MODE_ADDRESS,
                    MSI_EC_FAN_MODE_BASIC, rc)
      s3 == IfStreq(s2, buf, s_advanced, MSI_EC_FAN_MODE_ADDRESS,
                    MSI_EC_FAN_MODE_ADVANCED, rc)
  IN StoreReturn(s3, buf)

(***************************************************************************)
(* Firmware text: fw_version and fw_release_date.                          *)
(***************************************************************************)

\* skip_spaces(str)
RECURSIVE skip_spaces(_)
skip_spaces(s) ==
  IF s # <<>> /\ IsSpace(Head(s)) THEN skip_spaces(Tail(s)) ELSE s

\* At most w leading digits of s.
RECURSIVE DigitPrefixLimit(_, _)
DigitPrefixLimit(s, w) ==
  IF w <= 0 \/ s = <<>> \/ ~IsDigit(Head(s)) THEN <<>>
  ELSE <<Head(s)>> \o DigitPrefixLimit(Tail(s), w - 1)

\* One %0wd conversion of sscanf on the text s: blanks are skipped, a '-' may
\* lead, then at most w characters are converted.  ok = FALSE: the conversion
\* failed, and sscanf stops without assigning.
ScanInt(s, w) ==
  LET t == skip_spaces(s)
      neg == t # <<>> /\ Head(t) = 45
      first == IF neg THEN (IF Len(t) >= 2 THEN t[2] ELSE NUL)
               ELSE (IF t # <<>> THEN t[1] ELSE NUL)
      body == IF neg THEN Tail(t) ELSE t
      d == DigitPrefixLimit(body, IF neg THEN w - 1 ELSE w)
  IN IF s = <<>> \/ (neg /\ w = 1) \/ ~IsDigit(first)
     THEN [ok |-> FALSE, val |-> 0, rest |-> s]
     ELSE [ok |-> TRUE,
           val |-> IF neg THEN -DigitsValue(d, 0) ELSE DigitsValue(d, 0),
           rest |-> SubSeq(body, Len(d) + 1, Len(body))]

\* A literal character of the format: it must be the next character.
ScanChar(s, c) ==
  IF s # <<>> /\ Head(s) = c THEN [ok |-> TRUE, rest |-> Tail(s)]
  ELSE [ok |-> FALSE, rest |-> s]

\* sscanf(rdate, "%02d%02d%04d", &month, &day, &year): the values assigned,
\* in order; a shorter result leaves the later variables as they were.
sscanf_date(buf) ==
  LET s == CStr(buf)
      m == ScanInt(s, 2)
      d == ScanInt(m.rest, 2)
      y == ScanInt(d.rest, 4)
  IN IF ~m.ok THEN <<>>
     ELSE IF ~d.ok THEN <<m.val>>
     ELSE IF ~y.ok THEN <<m.val, d.val>>
     ELSE <<m.val, d.val, y.val>>

\* sscanf(rtime, "%02d:%02d:%02d", &hour, &minute, &second)
sscanf_time(buf) ==
  LET s == CStr(buf)
      h == ScanInt(s, 2)
      c1 == ScanChar(h.rest, 58)
      m == ScanInt(c1.rest, 2)
      c2 == ScanChar(m.rest, 58)
      x == ScanInt(c2.rest, 2)
  IN IF ~h.ok THEN <<>>
     ELSE IF ~c1.ok \/ ~m.ok THEN <<h.val>>
     ELSE IF ~c2.ok \/ ~x.ok THEN <<h.val, m.val>>
     ELSE <<h.val, m.val, x.val>>

\* A local `int` after sscanf: the value assigned, or whatever the stack held.
Local(assigned, i, stack) ==
  IF i <= Len(assigned) THEN assigned[i] ELSE stack

fw_version_show(e, pat) ==
  LET r == ec_read_seq(e, MSI_EC_FW_VERSION_ADDRESS, MSI_EC_FW_VERSION_LENGTH, pat)
  IN IF r.result < 0 THEN Eff(r.result, <<>>, r.xfer, e)
     ELSE LET o == CStr(r.buf) \o <<NL>> IN Eff(Len(o), o, r.xfer, e)

\* stack[1..6]: what the uninitialized month, day, year, hour, minute and
\* second hold on entry.
fw_release_date_show(e, pat, stack) ==
  LET rd == ec_read_seq(e, MSI_EC_FW_DATE_ADDRESS, MSI_EC_FW_DATE_LENGTH,
                        SubSeq(pat, 1, MSI_EC_FW_DATE_LENGTH))
      rt == ec_read_seq(e, MSI_EC_FW_TIME_ADDRESS, MSI_EC_FW_TIME_LENGTH,
                        SubSeq(pat, MSI_EC_FW_DATE_LENGTH + 1,
                               MSI_EC_FW_DATE_LENGTH + MSI_EC_FW_TIME_LENGTH))
      date == sscanf_date(rd.buf)
      time == sscanf_time(rt.buf)
      month == Local(date, 1, stack[1])
      day == Local(date, 2, stack[2])
      year == Local(date, 3, stack[3])
      hour == Local(time, 1, stack[4])
      minute == Local(time, 2, stack[5])
      second == Local(time, 3, stack[6])
      o == FmtPad(year, 4) \o <<47>> \o FmtPad(month, 2) \o <<47>> \o
           FmtPad(day, 2) \o <<SPACE>> \o FmtPad(hour, 2) \o <<58>> \o
           FmtPad(minute, 2) \o <<58>> \o FmtPad(second, 2) \o <<NL>>
  IN IF rd.result < 0 THEN Eff(rd.result, <<>>, rd.xfer, e)
     ELSE IF rt.result < 0 THEN Eff(rt.result, <<>>, rd.xfer \o rt.xfer, e)
     ELSE Eff(Len(o), o, rd.xfer \o rt.xfer, e)

(***************************************************************************)
(* Sysfs platform device attributes (cpu, gpu).                            *)
(***************************************************************************)
cpu_realtime_temperature_show(e, rc) ==
  LET r == ec_read(e, MSI_EC_CPU_REALTIME_TEMPERATURE_ADDRESS, rc)
  IN IF r.result < 0 THEN Eff(r.result, <<>>, <<r.x>>, e)
     ELSE ShowInt(r.val, <<r.x>>, e)

\* Sensitivity variant of cpu_realtime_fan_speed_show: a byte outside the
\* base range clamped to it instead of failing.
cpu_realtime_fan_speed_show_clamped(e, rc) ==
  LET r == ec_read(e, MSI_EC_CPU_REALTIME_FAN_SPEED_ADDRESS, rc)
      c == IF r.val < MSI_EC_CPU_REALTIME_FAN_SPEED_BASE_MIN
           THEN MSI_EC_CPU_REALTIME_FAN_SPEED_BASE_MIN
           ELSE IF r.val > MSI_EC_CPU_REALTIME_FAN_SPEED_BASE_MAX
           THEN MSI_EC_CPU_REALTIME_FAN_SPEED_BASE_MAX
           ELSE r.val
  IN IF r.result < 0 THEN Eff(r.result, <<>>, <<r.x>>, e)
     ELSE ShowInt((100 * (c - MSI_EC_CPU_REALTIME_FAN_SPEED_BASE_MIN)) \div
                  (MSI_EC_CPU_REALTIME_FAN_SPEED_BASE_MAX -
                   MSI_EC_CPU_REALTIME_FAN_SPEED_BASE_MIN), <<r.x>>, e)

cpu_realtime_fan_speed_show(e, rc) ==
  LET r == ec_read(e, MSI_EC_CPU_REALTIME_FAN_SPEED_ADDRESS, rc)
  IN IF r.result < 0 THEN Eff(r.result, <<>>, <<r.x>>, e)
     ELSE IF r.val < MSI_EC_CPU_REALTIME_FAN_SPEED_BASE_MIN \/
             r.val > MSI_EC_CPU_REALTIME_FAN_SPEED_BASE_MAX
     THEN Eff(-EINVAL, <<>>, <<r.x>>, e)
     ELSE ShowInt((100 * (r.val - MSI_EC_CPU_REALTIME_FAN_SPEED_BASE_MIN)) \div
                  (MSI_EC_CPU_REALTIME_FAN_SPEED_BASE_MAX -
                   MSI_EC_CPU_REALTIME_FAN_SPEED_BASE_MIN), <<r.x>>, e)

cpu_basic_fan_speed_show(e, rc) ==
  LET r == ec_read(e, MSI_EC_CPU_BASIC_FAN_SPEED_ADDRESS, rc)
  IN IF r.result < 0 THEN Eff(r.result, <<>>, <<r.x>>, e)
     ELSE IF r.val < MSI_EC_CPU_BASIC_FAN_SPEED_BASE_MIN \/
             r.val > MSI_EC_CPU_BASIC_FAN_SPEED_BASE_MAX
     THEN Eff(-EINVAL, <<>>, <<r.x>>, e)
     ELSE ShowInt((100 * (r.val - MSI_EC_CPU_BASIC_FAN_SPEED_BASE_MIN)) \div
                  (MSI_EC_CPU_BASIC_FAN_SPEED_BASE_MAX -
                   MSI_EC_CPU_BASIC_FAN_SPEED_BASE_MIN), <<r.x>>, e)

\* Sensitivity variant of cpu_basic_fan_speed_store: the limit of 100 not
\* checked.
cpu_basic_fan_speed_store_unchecked(e, buf, rc) ==
  LET p == kstrtou8(buf)
      wdata == p.val
  IN IF p.result < 0 THEN Eff(p.result, <<>>, <<>>, e)
     ELSE LET w == ec_write(e, MSI_EC_CPU_BASIC_FAN_SPEED_ADDRESS,
                   u8((wdata * (MSI_EC_CPU_BASIC_FAN_SPEED_BASE_MAX -
                                MSI_EC_CPU_BASIC_FAN_SPEED_BASE_MIN) +
                       100 * MSI_EC_CPU_BASIC_FAN_SPEED_BASE_MIN) \div 100), rc)
          IN IF w.result < 0 THEN Eff(w.result, <<>>, <<w.x>>, w.ec)
             ELSE Eff(Len(buf), <<>>, <<w.x>>, w.ec)

cpu_basic_fan_speed_store(e, buf, rc) ==
  LET p == kstrtou8(buf)
      wdata == p.val
  IN IF p.result < 0 THEN Eff(p.result, <<>>, <<>>, e)
     ELSE IF wdata > 100 THEN Eff(-EINVAL, <<>>, <<>>, e)
     ELSE LET w == ec_write(e, MSI_EC_CPU_BASIC_FAN_SPEED_ADDRESS,
                   u8((wdata * (MSI_EC_CPU_BASIC_FAN_SPEED_BASE_MAX -
                                MSI_EC_CPU_BASIC_FAN_SPEED_BASE_MIN) +
                       100 * MSI_EC_CPU_BASIC_FAN_SPEED_BASE_MIN) \div 100), rc)
          IN IF w.result < 0 THEN Eff(w.result, <<>>, <<w.x>>, w.ec)
             ELSE Eff(Len(buf), <<>>, <<w.x>>, w.ec)

gpu_realtime_temperature_show(e, rc) ==
  LET r == ec_read(e, MSI_EC_GPU_REALTIME_TEMPERATURE_ADDRESS, rc)
  IN IF r.result < 0 THEN Eff(r.result, <<>>, <<r.x>>, e)
     ELSE ShowInt(r.val, <<r.x>>, e)

gpu_realtime_fan_speed_show(e, rc) ==
  LET r == ec_read(e, MSI_EC_GPU_REALTIME_FAN_SPEED_ADDRESS, rc)
  IN IF r.result < 0 THEN Eff(r.result, <<>>, <<r.x>>, e)
     ELSE ShowInt(r.val, <<r.x>>, e)

(***************************************************************************)
(* Sysfs leds subsystem.  These handlers return a number, not text.        *)
(***************************************************************************)
RECURSIVE BitAnd(_, _)
BitAnd(a, b) ==
  IF a = 0 \/ b = 0 THEN 0
  ELSE (a % 2) * (b % 2) + 2 * BitAnd(a \div 2, b \div 2)

micmute_led_sysfs_set(e, brightness, rc) ==
  LET state == IF brightness # 0 THEN MSI_EC_MIC_LED_STATE_ON
               ELSE MSI_EC_MIC_LED_STATE_OFF
      w == ec_write(e, MSI_EC_LED_MICMUTE_ADDRESS, state, rc)
  IN IF w.result < 0 THEN Eff(w.result, <<>>, <<w.x>>, w.ec)
     ELSE Eff(0, <<>>, <<w.x>>, w.ec)

mute_led_sysfs_set(e, brightness, rc) ==
  LET state == IF brightness # 0 THEN MSI_EC_MUTE_LED_STATE_ON
               ELSE MSI_EC_MUTE_LED_STATE_OFF
      w == ec_write(e, MSI_EC_LED_MUTE_ADDRESS, state, rc)
  IN IF w.result < 0 THEN Eff(w.result, <<>>, <<w.x>>, w.ec)
     ELSE Eff(0, <<>>, <<w.x>>, w.ec)

\* Sensitivity variant of kbd_bl_sysfs_get: the register byte returned
\* without the mask.
kbd_bl_sysfs_get_unmasked(e, rc) ==
  LET r == ec_read(e, MSI_EC_KBD_BL_ADDRESS, rc)
  IN IF r.result < 0 THEN Eff(0, <<>>, <<r.x>>, e)
     ELSE Eff(r.val, <<>>, <<r.x>>, e)

kbd_bl_sysfs_get(e, rc) ==
  LET r == ec_read(e, MSI_EC_KBD_BL_ADDRESS, rc)
  IN IF r.result < 0 THEN Eff(0, <<>>, <<r.x>>, e)
     ELSE Eff(BitAnd(r.val, MSI_EC_KBD_BL_STATE_MASK), <<>>, <<r.x>>, e)

\* Sensitivity variant of kbd_bl_sysfs_set: the brightness masked to two
\* bits instead of range-checked.
kbd_bl_sysfs_set_masked(e, brightness, rc) ==
  LET w == ec_write(e, MSI_EC_KBD_BL_ADDRESS,
                    MSI_EC_KBD_BL_STATE[(brightness % 4) + 1], rc)
  IN Eff(w.result, <<>>, <<w.x>>, w.ec)

kbd_bl_sysfs_set(e, brightness, rc) ==
  IF brightness < 0 \/ brightness > 3 THEN Eff(-1, <<>>, <<>>, e)
  ELSE LET w == ec_write(e, MSI_EC_KBD_BL_ADDRESS,
                         MSI_EC_KBD_BL_STATE[brightness + 1], rc)
       IN Eff(w.result, <<>>, <<w.x>>, w.ec)

(***************************************************************************)
(* The attribute tables.  DEVICE_ATTR_RW(x) declares mode 0644 with x_show *)
(* and x_store, DEVICE_ATTR_RO(x) mode 0444 with x_show and no store; the  *)
(* cpu and gpu attributes spell the same out.  mode is the octal digits.   *)
(***************************************************************************)
DeviceAttr(name, mode, show, store) ==
  [name |-> name, mode |-> mode, show |-> show, store |-> store]

\* Sensitivity variant of msi_platform_groups: fw_version declared with
\* DEVICE_ATTR_RW and a store handler.
msi_platform_groups_fw_version_rw ==
  {DeviceAttr("fw_version", <<6, 4, 4>>, "fw_version_show", "webcam_store"),
   DeviceAttr("cpu/realtime_temperature", <<4, 4, 4>>,
              "cpu_realtime_temperature_show", "NULL")}

msi_platform_groups ==
  {DeviceAttr("webcam", <<6, 4, 4>>, "webcam_show", "webcam_store"),
   DeviceAttr("fn_key", <<6, 4, 4>>, "fn_key_show", "fn_key_store"),
   DeviceAttr("win_key", <<6, 4, 4>>, "win_key_show", "win_key_store"),
   DeviceAttr("battery_mode", <<6, 4, 4>>, "battery_mode_show", "battery_mode_store"),
   DeviceAttr("cooler_boost", <<6, 4, 4>>, "cooler_boost_show", "cooler_boost_store"),
   DeviceAttr("shift_mode", <<6, 4, 4>>, "shift_mode_show", "shift_mode_store"),
   DeviceAttr("fan_mode", <<6, 4, 4>>, "fan_mode_show", "fan_mode_store"),
   DeviceAttr("fw_version", <<4, 4, 4>>, "fw_version_show", "NULL"),
   DeviceAttr("fw_release_date", <<4, 4, 4>>, "fw_release_date_show", "NULL"),
   DeviceAttr("cpu/realtime_temperature", <<4, 4, 4>>,
              "cpu_realtime_temperature_show", "NULL"),
   DeviceAttr("cpu/realtime_fan_speed", <<4, 4, 4>>,
              "cpu_realtime_fan_speed_show", "NULL"),
   DeviceAttr("cpu/basic_fan_speed", <<6, 4, 4>>,
              "cpu_basic_fan_speed_show", "cpu_basic_fan_speed_store"),
   DeviceAttr("gpu/realtime_temperature", <<4, 4, 4>>,
              "gpu_realtime_temperature_show", "NULL"),
   DeviceAttr("gpu/realtime_fan_speed", <<4, 4, 4>>,
              "gpu_realtime_fan_speed_show", "NULL")}

\* Some class of user has the write bit.
Writable(mode) == \E i \in 1..3 : mode[i] \in {2, 3, 6, 7}

\* The call through the attribute's .store pointer.
StoreHandler(store, e, buf, rc) ==
  CASE store = "webcam_store" -> webcam_store(e, buf, rc)
    [] store = "fn_key_store" -> fn_key_store(e, buf, rc)
    [] store = "win_key_store" -> win_key_store(e, buf, rc)
    [] store = "battery_mode_store" -> battery_mode_store(e, buf, rc)
    [] store = "cooler_boost_store" -> cooler_boost_store(e, buf, rc)
    [] store = "shift_mode_store" -> shift_mode_store(e, buf, rc)
    [] store = "fan_mode_store" -> fan_mode_store(e, buf, rc)
    [] store = "cpu_basic_fan_speed_store" -> cpu_basic_fan_speed_store(e, buf, rc)

\* A write to the attribute's sysfs file: sysfs refuses to open for writing
\* a file no one may write (-EACCES), the device core answers -EIO for an
\* attribute with no store, and otherwise the attribute's store is called.
sysfs_store(attr, e, buf, rc) ==
  IF ~Writable(attr.mode) THEN Eff(-EACCES, <<>>, <<>>, e)
  ELSE IF attr.store = "NULL" THEN Eff(-EIO, <<>>, <<>>, e)
  ELSE StoreHandler(attr.store, e, buf, rc)

(***************************************************************************)
(* Module load/unload.  The module's footprint in the kernel: the platform *)
(* driver, the platform device (none, allocated, added), the sysfs groups  *)
(* the probe creates, the battery hook and the LED devices.                *)
(***************************************************************************)
Leds == {"micmute", "mute", "kbd"}

Unloaded ==
  [state |-> "unloaded", ret |-> 0, driver |-> FALSE, device |-> "none",
   groups |-> FALSE, hook |-> FALSE, leds |-> {}]

\* Sensitivity variant of msi_ec_init: the driver is left registered when
\* platform_device_alloc fails.
msi_ec_init_keeps_driver(m, acpi_disabled, reg, alloc, add, del, probe, led) ==
  IF acpi_disabled THEN [m EXCEPT !.state = "failed", !.ret = -ENODEV]
  ELSE IF reg < 0 THEN [m EXCEPT !.state = "failed", !.ret = reg]
  ELSE LET registered == [m EXCEPT !.driver = TRUE]
       IN IF ~alloc
          THEN [registered EXCEPT !.state = "failed", !.ret = -ENOMEM]
          ELSE LET allocated == [registered EXCEPT !.device = "allocated"]
               IN IF add < 0
                  THEN IF del = "oops"
                       THEN [allocated EXCEPT !.state = "oops", !.ret = 0]
                       ELSE [allocated EXCEPT !.driver = FALSE,
                                              !.state = "failed", !.ret = add]
                  ELSE [allocated EXCEPT
                          !.device = "added",
                          !.groups = (probe = 0),
                          !.hook = TRUE,
                          !.leds = {l \in Leds : led[l] = 0},
                          !.state = "loaded",
                          !.ret = 0]

\* msi_ec_init().  reg, add and led[l] are the results of
\* platform_driver_register, platform_device_add and led_classdev_register,
\* alloc whether platform_device_alloc returned a device, probe the result
\* of msi_platform_probe, which platform_device_add runs.  del is what
\* platform_device_del does with a device whose add failed, a call outside
\* that function's contract: it returns, or the kernel stops the thread
\* there and msi_ec_init never returns.
msi_ec_init(m, acpi_disabled, reg, alloc, add, del, probe, led) ==
  IF acpi_disabled THEN [m EXCEPT !.state = "failed", !.ret = -ENODEV]
  ELSE IF reg < 0 THEN [m EXCEPT !.state = "failed", !.ret = reg]
  ELSE LET registered == [m EXCEPT !.driver = TRUE]
       IN IF ~alloc
          THEN [registered EXCEPT !.driver = FALSE, !.state = "failed",
                                  !.ret = -ENOMEM]
          ELSE LET allocated == [registered EXCEPT !.device = "allocated"]
               IN IF add < 0
                  THEN IF del = "oops"
                       THEN [allocated EXCEPT !.state = "oops", !.ret = 0]
                       ELSE [allocated EXCEPT !.driver = FALSE,
                                              !.state = "failed", !.ret = add]
                  ELSE [allocated EXCEPT
                          !.device = "added",
                          !.groups = (probe = 0),
                          !.hook = TRUE,
                          !.leds = {l \in Leds : led[l] = 0},
                          !.state = "loaded",
                          !.ret = 0]

\* msi_ec_exit(): platform_device_del takes the device off the bus and does
\* not free it.
msi_ec_exit(m) ==
  [m EXCEPT !.leds = {}, !.hook = FALSE, !.driver = FALSE, !.groups = FALSE,
            !.device = "allocated", !.state = "exited", !.ret = 0]

\* The module after an msi_ec_init in which every registration succeeded.
Loaded ==
  msi_ec_init(Unloaded, FALSE, 0, TRUE, 0, "returns", 0, [l \in Leds |-> 0])

\* No sequential read is under way.
NoRace ==
  [pc |-> "idle", i |-> 0, rdate |-> <<>>, rtime |-> <<>>, result |-> 0,
   text |-> <<>>, before |-> <<>>, writes |-> <<>>]

(***************************************************************************)
(* Bounds of the exploration.                                              *)
(***************************************************************************)
\* Calls in one behaviour from the registers the firmware leaves at boot.
MaxCalls == 2
\* Calls in one behaviour that starts from a swept register image.
SweepCalls == 1
\* Transport faults in the plan of one sequential read.
MaxFaults == 1
\* The largest number written as text to a numeric attribute.
MaxNum == 257

(***************************************************************************)
(* The registers at boot, and the images a sweep starts from.              *)
(***************************************************************************)
\* The registers of the single-byte attributes.

AttrAddrs ==
  {MSI_EC_CHARGE_CONTROL_ADDRESS, MSI_EC_WEBCAM_ADDRESS, MSI_EC_FN_WIN_ADDRESS,
   MSI_EC_BATTERY_MODE_ADDRESS, MSI_EC_COOLER_BOOST_ADDRESS,
   MSI_EC_SHIFT_MODE_ADDRESS, MSI_EC_FAN_MODE_ADDRESS,
   MSI_EC_CPU_REALTIME_TEMPERATURE_ADDRESS, MSI_EC_CPU_REALTIME_FAN_SPEED_ADDRESS,
   MSI_EC_CPU_BASIC_FAN_SPEED_ADDRESS, MSI_EC_GPU_REALTIME_TEMPERATURE_ADDRESS,
   MSI_EC_GPU_REALTIME_FAN_SPEED_ADDRESS, MSI_EC_LED_MICMUTE_ADDRESS,
   MSI_EC_LED_MUTE_ADDRESS, MSI_EC_KBD_BL_ADDRESS}

\* The registers of the firmware text.
TextAddrs ==
  (MSI_EC_FW_VERSION_ADDRESS ..
     MSI_EC_FW_VERSION_ADDRESS + MSI_EC_FW_VERSION_LENGTH - 1) \cup
  (MSI_EC_FW_DATE_ADDRESS .. MSI_EC_FW_DATE_ADDRESS + MSI_EC_FW_DATE_LENGTH - 1) \cup
  (MSI_EC_FW_TIME_ADDRESS .. MSI_EC_FW_TIME_ADDRESS + MSI_EC_FW_TIME_LENGTH - 1)

\* The addresses the driver uses.
Addr == AttrAddrs \cup TextAddrs

\* "14D1EMS1.108", "07042024", "13:05:59"
FwVersionText == <<49, 52, 68, 49, 69, 77, 83, 49, 46, 49, 48, 56>>
FwDateText == <<48, 55, 48, 52, 50, 48, 50, 52>>
FwTimeText == <<49, 51, 58, 48, 53, 58, 53, 57>>

BootImage ==
  [a \in Addr |->
     CASE a = MSI_EC_CHARGE_CONTROL_ADDRESS -> MSI_EC_CHARGE_CONTROL_RANGE_MAX
       [] a = MSI_EC_WEBCAM_ADDRESS -> MSI_EC_WEBCAM_ON
       [] a = MSI_EC_FN_WIN_ADDRESS -> MSI_EC_FN_KEY_RIGHT
       [] a = MSI_EC_BATTERY_MODE_ADDRESS -> MSI_EC_BATTERY_MODE_MAX_CHARGE
       [] a = MSI_EC_COOLER_BOOST_ADDRESS -> MSI_EC_COOLER_BOOST_OFF
       [] a = MSI_EC_SHIFT_MODE_ADDRESS -> MSI_EC_SHIFT_MODE_BALANCED
       [] a = MSI_EC_FAN_MODE_ADDRESS -> MSI_EC_FAN_MODE_BASIC
       [] a = MSI_EC_CPU_REALTIME_TEMPERATURE_ADDRESS -> 45
       [] a = MSI_EC_CPU_REALTIME_FAN_SPEED_ADDRESS -> 40
       [] a = MSI_EC_CPU_BASIC_FAN_SPEED_ADDRESS -> 75
       [] a = MSI_EC_GPU_REALTIME_TEMPERATURE_ADDRESS -> 41
       [] a = MSI_EC_GPU_REALTIME_FAN_SPEED_ADDRESS -> 30
       [] a = MSI_EC_LED_MICMUTE_ADDRESS -> MSI_EC_MIC_LED_STATE_OFF
       [] a = MSI_EC_LED_MUTE_ADDRESS -> MSI_EC_MUTE_LED_STATE_OFF
       [] a = MSI_EC_KBD_BL_ADDRESS -> MSI_EC_KBD_BL_STATE[1]
       [] a >= MSI_EC_FW_VERSION_ADDRESS /\
          a < MSI_EC_FW_VERSION_ADDRESS + MSI_EC_FW_VERSION_LENGTH ->
            FwVersionText[a - MSI_EC_FW_VERSION_ADDRESS + 1]
       [] a >= MSI_EC_FW_DATE_ADDRESS /\
          a < MSI_EC_FW_DATE_ADDRESS + MSI_EC_FW_DATE_LENGTH ->
            FwDateText[a - MSI_EC_FW_DATE_ADDRESS + 1]
       [] a >= MSI_EC_FW_TIME_ADDRESS /\
          a < MSI_EC_FW_TIME_ADDRESS + MSI_EC_FW_TIME_LENGTH ->
            FwTimeText[a - MSI_EC_FW_TIME_ADDRESS + 1]
       [] OTHER -> 0]

\* Every single-byte attribute register holds the byte b.
ByteImage(b) == [a \in Addr |-> IF a \in AttrAddrs THEN b ELSE BootImage[a]]

\* Characters a firmware text register may hold instead of the expected one:
\* NUL, blank, '-', '7', ':', 'x'.
OddChars == {NUL, SPACE, 45, 55, 58, 120}

\* The boot image with one text register holding an odd character.
TextImages ==
  {BootImage} \cup
  {[BootImage EXCEPT ![a] = c] : a \in TextAddrs, c \in OddChars}

(***************************************************************************)
(* Inputs.                                                                 *)
(***************************************************************************)
\* Text written to an enumeration attribute with the given names: each name,
\* bare and with the newline echo appends, "on" and "left\n" for every attribute, and
\* text that is no name: "", "\n", "ON", "on ", "on\n\n", "o", "1", "offf".
TextInputs(names) ==
  names \cup {n \o <<NL>> : n \in names} \cup
  {s_on, s_left \o <<NL>>} \cup
  {<<>>, <<NL>>, <<79, 78>>, s_on \o <<SPACE>>, s_on \o <<NL, NL>>, <<111>>,
   <<49>>, s_off \o <<102>>}

WebcamNames == {s_on, s_off}
KeyNames == {s_left, s_right}
BatteryModeNames == {s_max, s_medium, s_min}
CoolerBoostNames == {s_on, s_off}
ShiftModeNames == {s_performance, s_balanced, s_eco, s_off}
FanModeNames == {s_silent, s_basic, s_advanced}

\* Text written to a numeric attribute: every number up to MaxNum, some with
\* the newline, a sign or leading zeros, and text that is no number:
\* "", "\n", "x", "1x", "-1", "1 ", " 1", "1\n\n".
NumInputs ==
  {Digits(n) : n \in 0..MaxNum} \cup
  {Digits(n) \o <<NL>> : n \in {0, 50, 90, 100, 101}} \cup
  {<<43>> \o Digits(50), <<48, 48>> \o Digits(50), <<43>>} \cup
  {<<>>, <<NL>>, <<120>>, <<49, 120>>, <<45, 49>>, <<49, SPACE>>, <<SPACE, 49>>,
   <<49, NL, NL>>}

\* A few numeric inputs, for the behaviours that sweep something else.
FewNumInputs ==
  {Digits(n) : n \in {0, 50, 90, 100, 101, 255, 256}} \cup
  {Digits(50) \o <<NL>>, <<>>, <<120>>, <<45, 49>>}

\* Brightness values the LED core may pass.
Brightness == -1..4

\* The plans of n transport reads with at most k faults.
RECURSIVE Plans(_, _)
Plans(n, k) ==
  IF n = 0 THEN {<<>>}
  ELSE {<<0>> \o p : p \in Plans(n - 1, k)} \cup
       (IF k = 0 THEN {}
        ELSE {<<c>> \o p : c \in FaultCodes, p \in Plans(n - 1, k - 1)})

FwVersionPlans == Plans(MSI_EC_FW_VERSION_LENGTH, MaxFaults)
FwReleaseDatePlans ==
  Plans(MSI_EC_FW_DATE_LENGTH + MSI_EC_FW_TIME_LENGTH, MaxFaults)

\* What the stack may hold where an uninitialized int lives.
Garbage == {-1, 32767}

(***************************************************************************)
(* One call of a handler.                                                  *)
(***************************************************************************)
Gets ==
  {"charge_control_start_threshold_show", "charge_control_end_threshold_show",
   "webcam_show", "fn_key_show", "win_key_show", "battery_mode_show",
   "cooler_boost_show", "shift_mode_show", "fan_mode_show", "fw_version_show",
   "fw_release_date_show", "cpu_realtime_temperature_show",
   "cpu_realtime_fan_speed_show", "cpu_basic_fan_speed_show",
   "gpu_realtime_temperature_show", "gpu_realtime_fan_speed_show",
   "kbd_bl_sysfs_get"}

\* The sysfs stores return the count of bytes consumed, the LED sets 0.
Stores ==
  {"charge_control_start_threshold_store", "charge_control_end_threshold_store",
   "charge_control_threshold_store",
   "webcam_store", "fn_key_store", "win_key_store", "battery_mode_store",
   "cooler_boost_store", "shift_mode_store", "fan_mode_store",
   "cpu_basic_fan_speed_store"}
LedSets == {"micmute_led_sysfs_set", "mute_led_sysfs_set", "kbd_bl_sysfs_set"}
Sets == Stores \cup LedSets

\* The last call was a set and reported success.
SetOk == (op \in Stores /\ ret > 0) \/ (op \in LedSets /\ ret = 0)

\* A call is made when no call is in progress; Return hands the result to
\* the caller, who remembers only a successful set.
Idle == op = "none" /\ ncalls < MaxCalls

Call(name, a, eff, pl) ==
  /\ ncalls' = ncalls + 1
  /\ op' = name
  /\ arg' = a
  /\ plan' = pl
  /\ LET r == eff
     IN /\ ret' = r.ret
        /\ out' = r.out
        /\ xfer' = r.xfer
        /\ ec' = r.ec
  /\ prior' = IF name \in Gets THEN prior ELSE NoCall
  /\ UNCHANGED <<mod, race>>

Return ==
  /\ op # "none"
  /\ op' = "none"
  /\ arg' = <<>>
  /\ ret' = 0
  /\ out' = <<>>
  /\ xfer' = <<>>
  /\ plan' = <<>>
  /\ prior' = IF SetOk THEN [op |-> op, arg |-> arg] ELSE NoCall
  /\ UNCHANGED <<ec, ncalls, mod, race>>

ChargeStartShow ==
  Idle /\ \E rc \in Results :
    Call("charge_control_start_threshold_show", <<>>,
         charge_control_start_threshold_show(ec, rc), <<>>)
ChargeEndShow ==
  Idle /\ \E rc \in Results :
    Call("charge_control_end_threshold_show", <<>>,
         charge_control_end_threshold_show(ec, rc), <<>>)
ChargeStartStore(I) ==
  Idle /\ \E buf \in I, rc \in Results :
    Call("charge_control_start_threshold_store", buf,
         charge_control_start_threshold_store(ec, buf, rc), <<>>)
ChargeEndStore(I) ==
  Idle /\ \E buf \in I, rc \in Results :
    Call("charge_control_end_threshold_store", buf,
         charge_control_end_threshold_store(ec, buf, rc), <<>>)

WebcamShow ==
  Idle /\ \E rc \in Results : Call("webcam_show", <<>>, webcam_show(ec, rc), <<>>)
WebcamStore ==
  Idle /\ \E buf \in TextInputs(WebcamNames), rc \in Results :
    Call("webcam_store", buf, webcam_store(ec, buf, rc), <<>>)
FnKeyShow ==
  Idle /\ \E rc \in Results : Call("fn_key_show", <<>>, fn_key_show(ec, rc), <<>>)
FnKeyStore ==
  Idle /\ \E buf \in TextInputs(KeyNames), rc \in Results :
    Call("fn_key_store", buf, fn_key_store(ec, buf, rc), <<>>)
WinKeyShow ==
  Idle /\ \E rc \in Results : Call("win_key_show", <<>>, win_key_show(ec, rc), <<>>)
WinKeyStore ==
  Idle /\ \E buf \in TextInputs(KeyNames), rc \in Results :
    Call("win_key_store", buf, win_key_store(ec, buf, rc), <<>>)
BatteryModeShow ==
  Idle /\ \E rc \in Results :
    Call("battery_mode_show", <<>>, battery_mode_show(ec, rc), <<>>)
BatteryModeStore ==
  Idle /\ \E buf \in TextInputs(BatteryModeNames), rc \in Results :
    Call("battery_mode_store", buf, battery_mode_store(ec, buf, rc), <<>>)
CoolerBoostShow ==
  Idle /\ \E rc \in Results :
    Call("cooler_boost_show", <<>>, cooler_boost_show(ec, rc), <<>>)
CoolerBoostStore ==
  Idle /\ \E buf \in TextInputs(CoolerBoostNames), rc \in Results :
    Call("cooler_boost_store", buf, cooler_boost_store(ec, buf, rc), <<>>)
ShiftModeShow ==
  Idle /\ \E rc \in Results : Call("shift_mode_show", <<>>, shift_mode_show(ec, rc), <<>>)
ShiftModeStore ==
  Idle /\ \E buf \in TextInputs(ShiftModeNames), rc \in Results :
    Call("shift_mode_store", buf, shift_mode_store(ec, buf, rc), <<>>)
FanModeShow ==
  Idle /\ \E rc \in Results : Call("fan_mode_show", <<>>, fan_mode_show(ec, rc), <<>>)
FanModeStore ==
  Idle /\ \E buf \in TextInputs(FanModeNames), rc \in Results :
    Call("fan_mode_store", buf, fan_mode_store(ec, buf, rc), <<>>)

FwVersionShow ==
  Idle /\ \E pat \in FwVersionPlans :
    Call("fw_version_show", <<>>, fw_version_show(ec, pat), pat)

\* The stack matters only where sscanf assigns nothing.
Stacks(e) ==
  LET ok == [i \in 1..(MSI_EC_FW_DATE_LENGTH + MSI_EC_FW_TIME_LENGTH) |-> 0]
      rd == ec_read_seq(e, MSI_EC_FW_DATE_ADDRESS, MSI_EC_FW_DATE_LENGTH, ok)
      rt == ec_read_seq(e, MSI_EC_FW_TIME_ADDRESS, MSI_EC_FW_TIME_LENGTH, ok)
      nd == Len(sscanf_date(rd.buf))
      nt == Len(sscanf_time(rt.buf))
      U == {i \in 1..3 : i > nd} \cup {3 + i : i \in {j \in 1..3 : j > nt}}
  IN {[i \in 1..6 |-> IF i \in U THEN h[i] ELSE 0] : h \in [U -> Garbage]}

FwReleaseDateShow ==
  Idle /\ \E pat \in FwReleaseDatePlans, stack \in Stacks(ec) :
    Call("fw_release_date_show", <<>>, fw_release_date_show(ec, pat, stack), pat)

CpuRealtimeTemperatureShow ==
  Idle /\ \E rc \in Results :
    Call("cpu_realtime_temperature_show", <<>>,
         cpu_realtime_temperature_show(ec, rc), <<>>)
CpuRealtimeFanSpeedShow ==
  Idle /\ \E rc \in Results :
    Call("cpu_realtime_fan_speed_show", <<>>,
         cpu_realtime_fan_speed_show(ec, rc), <<>>)
CpuBasicFanSpeedShow ==
  Idle /\ \E rc \in Results :
    Call("cpu_basic_fan_speed_show", <<>>, cpu_basic_fan_speed_show(ec, rc), <<>>)
CpuBasicFanSpeedStore(I) ==
  Idle /\ \E buf \in I, rc \in Results :
    Call("cpu_basic_fan_speed_store", buf,
         cpu_basic_fan_speed_store(ec, buf, rc), <<>>)
GpuRealtimeTemperatureShow ==
  Idle /\ \E rc \in Results :
    Call("gpu_realtime_temperature_show", <<>>,
         gpu_realtime_temperature_show(ec, rc), <<>>)
GpuRealtimeFanSpeedShow ==
  Idle /\ \E rc \in Results :
    Call("gpu_realtime_fan_speed_show", <<>>,
         gpu_realtime_fan_speed_show(ec, rc), <<>>)

MicmuteLedSet ==
  Idle /\ \E b \in Brightness, rc \in Results :
    Call("micmute_led_sysfs_set", b, micmute_led_sysfs_set(ec, b, rc), <<>>)
MuteLedSet ==
  Idle /\ \E b \in Brightness, rc \in Results :
    Call("mute_led_sysfs_set", b, mute_led_sysfs_set(ec, b, rc), <<>>)
KbdBlGet ==
  Idle /\ \E rc \in Results : Call("kbd_bl_sysfs_get", <<>>, kbd_bl_sysfs_get(ec, rc), <<>>)
KbdBlSet ==
  Idle /\ \E b \in Brightness, rc \in Results :
    Call("kbd_bl_sysfs_set", b, kbd_bl_sysfs_set(ec, b, rc), <<>>)

SysfsStore ==
  Idle /\ \E attr \in msi_platform_groups,
             buf \in TextInputs(WebcamNames) \cup FewNumInputs, rc \in Results :
    Call("sysfs_store", [attr |-> attr.name, buf |-> buf],
         sysfs_store(attr, ec, buf, rc), <<>>)

\* insmod: the module is not loaded.
ModuleInit ==
  /\ Idle
  /\ mod.state \in {"unloaded", "failed", "exited"}
  /\ \E acpi_disabled \in BOOLEAN, reg \in Results, alloc \in BOOLEAN,
        add \in Results, del \in {"returns", "oops"}, probe \in Results,
        led \in [Leds -> Results] :
       mod' = msi_ec_init(mod, acpi_disabled, reg, alloc, add, del, probe, led)
  /\ ncalls' = ncalls + 1
  /\ UNCHANGED <<ec, op, arg, ret, out, xfer, plan, prior, race>>

\* rmmod: the module is loaded.
ModuleExit ==
  /\ Idle
  /\ mod.state = "loaded"
  /\ mod' = msi_ec_exit(mod)
  /\ ncalls' = ncalls + 1
  /\ UNCHANGED <<ec, op, arg, ret, out, xfer, plan, prior, race>>

\* The LED core calls a LED device's callbacks while it is registered.
LedCall ==
  /\ mod.state = "loaded"
  /\ \/ "micmute" \in mod.leds /\ MicmuteLedSet
     \/ "mute" \in mod.leds /\ MuteLedSet
     \/ "kbd" \in mod.leds /\ (KbdBlGet \/ KbdBlSet)

(***************************************************************************)
(* fw_release_date_show run one ec_read at a time, beside other callers of *)
(* the transport.  Nothing in the driver serializes them.                  *)
(***************************************************************************)
\* The other callers, each with one single-register write to make.
Writers == {"w1", "w2"}

\* Iteration i of the loop of ec_read_seq(addr, buf, len), the hardware
\* answering rc.
ec_read_seq_iteration(e, addr, i, buf, rc) ==
  ec_read_seq_from(e, addr, i + 1, [j \in 1..(i + 1) |-> rc], i, buf, <<>>)

\* The registers as the reader saw them: the bytes it collected in rdate
\* and rtime.
Collected(e, rdate, rtime) ==
  [a \in Addr |->
     IF a >= MSI_EC_FW_DATE_ADDRESS /\
        a < MSI_EC_FW_DATE_ADDRESS + MSI_EC_FW_DATE_LENGTH
     THEN rdate[a - MSI_EC_FW_DATE_ADDRESS + 1]
     ELSE IF a >= MSI_EC_FW_TIME_ADDRESS /\
             a < MSI_EC_FW_TIME_ADDRESS + MSI_EC_FW_TIME_LENGTH
     THEN rtime[a - MSI_EC_FW_TIME_ADDRESS + 1]
     ELSE e[a]]

\* fw_release_date_show is entered: both buffers are zeroed.
RaceStart ==
  /\ race.pc = "idle"
  /\ race' = [race EXCEPT
                !.pc = "date",
                !.i = 0,
                !.rdate = [j \in 1..MSI_EC_FW_DATE_LENGTH |-> 0],
                !.rtime = [j \in 1..MSI_EC_FW_TIME_LENGTH |-> 0],
                !.before = ec]
  /\ UNCHANGED <<ec, op, arg, ret, out, xfer, plan, prior, ncalls, mod>>

\* One iteration of the date run.
RaceReadDate ==
  /\ race.pc = "date"
  /\ \E rc \in Results :
       LET r == ec_read_seq_iteration(ec, MSI_EC_FW_DATE_ADDRESS, race.i,
                                      race.rdate, rc)
       IN race' = IF r.result < 0
                  THEN [race EXCEPT !.pc = "done", !.result = r.result]
                  ELSE [race EXCEPT
                          !.rdate = r.buf,
                          !.i = IF race.i + 1 = MSI_EC_FW_DATE_LENGTH
                                THEN 0 ELSE race.i + 1,
                          !.pc = IF race.i + 1 = MSI_EC_FW_DATE_LENGTH
                                 THEN "time" ELSE "date"]
  /\ UNCHANGED <<ec, op, arg, ret, out, xfer, plan, prior, ncalls, mod>>

\* One iteration of the time run; after the last, the text is formatted.
RaceReadTime ==
  /\ race.pc = "time"
  /\ \E rc \in Results :
       LET r == ec_read_seq_iteration(ec, MSI_EC_FW_TIME_ADDRESS, race.i,
                                      race.rtime, rc)
           text == fw_release_date_show(
                     Collected(ec, race.rdate, r.buf),
                     [j \in 1..(MSI_EC_FW_DATE_LENGTH + MSI_EC_FW_TIME_LENGTH) |-> 0],
                     [j \in 1..6 |-> 0]).out
       IN race' = IF r.result < 0
                  THEN [race EXCEPT !.pc = "done", !.result = r.result]
                  ELSE IF race.i + 1 = MSI_EC_FW_TIME_LENGTH
                  THEN [race EXCEPT !.rtime = r.buf, !.pc = "done",
                                    !.result = Len(text), !.text = text]
                  ELSE [race EXCEPT !.rtime = r.buf, !.i = race.i + 1]
  /\ UNCHANGED <<ec, op, arg, ret, out, xfer, plan, prior, ncalls, mod>>

\* Another caller's ec_write of a digit to a register of the date or time
\* field, while the read is under way.  at: how many reads the reader had
\* issued.
ConcurrentWrite ==
  /\ race.pc \in {"date", "time"}
  /\ Len(race.writes) < Cardinality(Writers)
  /\ \E a \in (MSI_EC_FW_DATE_ADDRESS..
               (MSI_EC_FW_DATE_ADDRESS + MSI_EC_FW_DATE_LENGTH - 1)) \cup
              (MSI_EC_FW_TIME_ADDRESS..
               (MSI_EC_FW_TIME_ADDRESS + MSI_EC_FW_TIME_LENGTH - 1)),
        v \in {57} :
       /\ ec' = ec_write(ec, a, v, 0).ec
       /\ race' = [race EXCEPT
                     !.writes = Append(@, [a |-> a, v |-> v,
                                           at |-> IF race.pc = "date" THEN race.i
                                                  ELSE MSI_EC_FW_DATE_LENGTH + race.i])]
  /\ UNCHANGED <<op, arg, ret, out, xfer, plan, prior, ncalls, mod>>

(***************************************************************************)
(* Specifications.                                                         *)
(***************************************************************************)
InitCall(image, n) ==
  /\ ec = image
  /\ op = "none"
  /\ arg = <<>>
  /\ ret = 0
  /\ out = <<>>
  /\ xfer = <<>>
  /\ plan = <<>>
  /\ prior = NoCall
  /\ ncalls = n
  /\ mod = Loaded
  /\ race = NoRace

\* The whole driver, from the registers at boot.
Init == InitCall(BootImage, 0)

Next ==
  \/ ChargeStartShow \/ ChargeEndShow
  \/ ChargeStartStore(FewNumInputs) \/ ChargeEndStore(FewNumInputs)
  \/ WebcamShow \/ WebcamStore \/ FnKeyShow \/ FnKeyStore
  \/ WinKeyShow \/ WinKeyStore \/ BatteryModeShow \/ BatteryModeStore
  \/ CoolerBoostShow \/ CoolerBoostStore \/ ShiftModeShow \/ ShiftModeStore
  \/ FanModeShow \/ FanModeStore \/ FwVersionShow \/ FwReleaseDateShow
  \/ CpuRealtimeTemperatureShow \/ CpuRealtimeFanSpeedShow
  \/ CpuBasicFanSpeedShow \/ CpuBasicFanSpeedStore(FewNumInputs)
  \/ GpuRealtimeTemperatureShow \/ GpuRealtimeFanSpeedShow
  \/ MicmuteLedSet \/ MuteLedSet \/ KbdBlGet \/ KbdBlSet
  \/ Return

Spec == Init /\ [][Next]_vars

\* The firmware text attributes, from every text image.
InitText == \E image \in TextImages : InitCall(image, MaxCalls - SweepCalls)
NextText == FwVersionShow \/ FwReleaseDateShow \/ Return
SpecText == InitText /\ [][NextText]_vars

\* The enumeration and boolean attributes, from every byte their registers
\* may hold.
InitEnum == \E b \in Byte : InitCall(ByteImage(b), MaxCalls - SweepCalls)
NextEnum ==
  \/ WebcamShow \/ WebcamStore \/ FnKeyShow \/ FnKeyStore
  \/ WinKeyShow \/ WinKeyStore \/ BatteryModeShow \/ BatteryModeStore
  \/ CoolerBoostShow \/ CoolerBoostStore \/ ShiftModeShow \/ ShiftModeStore
  \/ FanModeShow \/ FanModeStore
  \/ Return
SpecEnum == InitEnum /\ [][NextEnum]_vars

\* The charge thresholds, with every number written to them.
NextThreshold ==
  \/ ChargeStartShow \/ ChargeEndShow
  \/ ChargeStartStore(NumInputs) \/ ChargeEndStore(NumInputs)
  \/ Return
SpecThreshold == Init /\ [][NextThreshold]_vars

\* charge_control_threshold_store with every offset a role may be given.
ChargeStoreAnyOffset ==
  Idle /\ \E offset \in Byte, n \in Byte, rc \in Results :
    Call("charge_control_threshold_store",
         [offset |-> offset, buf |-> Digits(n)],
         charge_control_threshold_store(offset, ec, Digits(n), rc), <<>>)
InitOffset == InitCall(BootImage, MaxCalls - SweepCalls)
NextOffset == ChargeStoreAnyOffset \/ Return
SpecOffset == InitOffset /\ [][NextOffset]_vars

\* The cpu fan speeds, with every number written to basic_fan_speed.
NextFan ==
  \/ CpuRealtimeFanSpeedShow \/ CpuBasicFanSpeedShow
  \/ CpuBasicFanSpeedStore(NumInputs)
  \/ Return
SpecFan == Init /\ [][NextFan]_vars

\* The cpu fan speeds, from every byte their registers may hold.
NextScaled ==
  \/ CpuRealtimeFanSpeedShow \/ CpuBasicFanSpeedShow
  \/ CpuBasicFanSpeedStore(FewNumInputs)
  \/ Return
SpecScaled == InitEnum /\ [][NextScaled]_vars

\* Writes to the sysfs file of every attribute.
NextAccess == SysfsStore \/ Return
SpecAccess == Init /\ [][NextAccess]_vars

\* The keyboard backlight, from every byte its register may hold.
InitKbd == \E b \in Byte : InitCall(ByteImage(b), 0)
NextKbd == KbdBlGet \/ KbdBlSet \/ Return
SpecKbd == InitKbd /\ [][NextKbd]_vars

\* fn_key and win_key, from every byte their register may hold.
NextKeys == FnKeyShow \/ FnKeyStore \/ WinKeyShow \/ WinKeyStore \/ Return
SpecKeys == InitKbd /\ [][NextKeys]_vars

\* The module from before it is loaded.
InitModule ==
  /\ ec = BootImage
  /\ op = "none"
  /\ arg = <<>>
  /\ ret = 0
  /\ out = <<>>
  /\ xfer = <<>>
  /\ plan = <<>>
  /\ prior = NoCall
  /\ ncalls = 0
  /\ mod = Unloaded
  /\ race = NoRace
NextModule == ModuleInit \/ ModuleExit \/ LedCall \/ Return
SpecModule == InitModule /\ [][NextModule]_vars

\* fw_release_date read beside concurrent writers.
NextRace == RaceStart \/ RaceReadDate \/ RaceReadTime \/ ConcurrentWrite
SpecRace == Init /\ [][NextRace]_vars

(***************************************************************************)
(* Properties.                                                             *)
(***************************************************************************)
TextGets == {"fw_version_show", "fw_release_date_show"}

\* Some read of the plan faults.
PlanFaults == \E i \in 1..Len(plan) : plan[i] < 0

\* C1: a multi-register get whose plan holds a faulting read returns a fault
\* and leaves the caller's buffer untouched: no partial text is returned.
C1_SeqReadAllOrNothing ==
  (op \in TextGets /\ PlanFaults) => (ret \in FaultCodes /\ out = <<>>)

\* fw_version: the fifth read faults after four bytes were read, and the
\* caller sees the fault and no text.
C1_Witness ==
  /\ op = "fw_version_show"
  /\ plan[5] < 0
  /\ Len(xfer) = 5
  /\ xfer[4].rc = 0
  /\ ret = plan[5]
  /\ out = <<>>

\* The date and time registers, as text.
DateBytes == [i \in 1..MSI_EC_FW_DATE_LENGTH |-> ec[MSI_EC_FW_DATE_ADDRESS + i - 1]]
TimeBytes == [i \in 1..MSI_EC_FW_TIME_LENGTH |-> ec[MSI_EC_FW_TIME_ADDRESS + i - 1]]

\* MMDDYYYY: eight digits.  HH:MM:SS: digits around two colons.
DateWellFormed == \A i \in 1..8 : IsDigit(DateBytes[i])
TimeWellFormed ==
  /\ \A i \in {1, 2, 4, 5, 7, 8} : IsDigit(TimeBytes[i])
  /\ TimeBytes[3] = 58 /\ TimeBytes[6] = 58

\* "YYYY/MM/DD HH:MM:SS\n" from well-formed registers: the characters moved.
Composed ==
  SubSeq(DateBytes, 5, 8) \o <<47>> \o SubSeq(DateBytes, 1, 2) \o <<47>> \o
  SubSeq(DateBytes, 3, 4) \o <<SPACE>> \o TimeBytes \o <<NL>>

\* C8 (well-formed half): when both reads succeed and the registers hold
\* eight digits and HH:MM:SS, get returns the composed date-time; the boot
\* registers "07042024" and "13:05:59" give "2024/07/04 13:05:59".
C8_WellFormedDecodes ==
  (op = "fw_release_date_show" /\ ~PlanFaults /\ DateWellFormed /\ TimeWellFormed)
    => /\ out = Composed
       /\ ret = Len(out)
       /\ (ec = BootImage =>
             out = <<50, 48, 50, 52, 47, 48, 55, 47, 48, 52, 32,
                     49, 51, 58, 48, 53, 58, 53, 57, 10>>)

\* C8: as C8_WellFormedDecodes, and when the date or the time registers hold
\* a non-numeric character get fails and returns no text.
C8_DateDecodeFails ==
  (op = "fw_release_date_show" /\ ~PlanFaults)
    => IF DateWellFormed /\ TimeWellFormed
       THEN out = Composed
       ELSE ret < 0 /\ out = <<>>

\* The text without the newline echo appends.
StripNL(s) ==
  IF s # <<>> /\ s[Len(s)] = NL THEN SubSeq(s, 1, Len(s) - 1) ELSE s

\* The last call issued exactly one transport call, which succeeded.
OneOk == Len(xfer) = 1 /\ xfer[1].rc = 0

\* The documented codes of the enumeration and boolean attributes.
EnumTable ==
  {[show |-> "webcam_show", store |-> "webcam_store",
    addr |-> MSI_EC_WEBCAM_ADDRESS,
    codes |-> {<<s_on, MSI_EC_WEBCAM_ON>>, <<s_off, MSI_EC_WEBCAM_OFF>>}],
   [show |-> "fn_key_show", store |-> "fn_key_store",
    addr |-> MSI_EC_FN_WIN_ADDRESS,
    codes |-> {<<s_left, MSI_EC_FN_KEY_LEFT>>, <<s_right, MSI_EC_FN_KEY_RIGHT>>}],
   [show |-> "win_key_show", store |-> "win_key_store",
    addr |-> MSI_EC_FN_WIN_ADDRESS,
    codes |-> {<<s_left, MSI_EC_WIN_KEY_LEFT>>, <<s_right, MSI_EC_WIN_KEY_RIGHT>>}],
   [show |-> "battery_mode_show", store |-> "battery_mode_store",
    addr |-> MSI_EC_BATTERY_MODE_ADDRESS,
    codes |-> {<<s_max, MSI_EC_BATTERY_MODE_MAX_CHARGE>>,
               <<s_medium, MSI_EC_BATTERY_MODE_MEDIUM_CHARGE>>,
               <<s_min, MSI_EC_BATTERY_MODE_MIN_CHARGE>>}],
   [show |-> "cooler_boost_show", store |-> "cooler_boost_store",
    addr |-> MSI_EC_COOLER_BOOST_ADDRESS,
    codes |-> {<<s_on, MSI_EC_COOLER_BOOST_ON>>, <<s_off, MSI_EC_COOLER_BOOST_OFF>>}],
   [show |-> "shift_mode_show", store |-> "shift_mode_store",
    addr |-> MSI_EC_SHIFT_MODE_ADDRESS,
    codes |-> {<<s_performance, MSI_EC_SHIFT_MODE_PERFORMANCE>>,
               <<s_balanced, MSI_EC_SHIFT_MODE_BALANCED>>,
               <<s_eco, MSI_EC_SHIFT_MODE_ECO>>,
               <<s_off, MSI_EC_SHIFT_MODE_OFF>>}],
   [show |-> "fan_mode_show", store |-> "fan_mode_store",
    addr |-> MSI_EC_FAN_MODE_ADDRESS,
    codes |-> {<<s_silent, MSI_EC_FAN_MODE_SILENT>>,
               <<s_basic, MSI_EC_FAN_MODE_BASIC>>,
               <<s_advanced, MSI_EC_FAN_MODE_ADVANCED>>}]}

\* "unknown (b)\n"
UnknownText(b) == s_unknown \o <<SPACE, 40>> \o Digits(b) \o <<41, NL>>

\* C2: for each enumeration or boolean attribute, a get whose read succeeds
\* never fails: it returns the name of a documented code, and the Unknown
\* variant with the raw byte for any other byte; a set writes the code of a
\* documented name (succeeding when the write does), and for every other
\* text fails without a transport call.
C2_EnumCodec ==
  \A t \in EnumTable :
    /\ (op = t.show /\ OneOk) =>
         /\ ret = Len(out) /\ ret > 0
         /\ \A c \in t.codes : ec[t.addr] = c[2] => out = c[1] \o <<NL>>
         /\ (\A c \in t.codes : ec[t.addr] # c[2]) => out = UnknownText(ec[t.addr])
    /\ op = t.store =>
         /\ \A c \in t.codes :
              StripNL(arg) = c[1] =>
                /\ Len(xfer) = 1
                /\ xfer[1] = Wr(t.addr, c[2], xfer[1].rc)
                /\ ret = (IF xfer[1].rc = 0 THEN Len(arg) ELSE xfer[1].rc)
                /\ (xfer[1].rc = 0 => ec[t.addr] = c[2])
         /\ (\A c \in t.codes : StripNL(arg) # c[1]) =>
              (ret = -EINVAL /\ xfer = <<>>)

\* shift_mode holds the undocumented byte 7 and reads as "unknown (7)".
C2_Witness ==
  /\ op = "shift_mode_show"
  /\ ec[MSI_EC_SHIFT_MODE_ADDRESS] = 7
  /\ ret > 0
  /\ out = UnknownText(7)

\* The text arg writes the number v, bare or with the newline.
NumberOf(a, v) == a = Digits(v) \/ a = Digits(v) \o <<NL>>

ThresholdRoles ==
  {[show |-> "charge_control_start_threshold_show",
    store |-> "charge_control_start_threshold_store",
    offset |-> MSI_EC_CHARGE_CONTROL_OFFSET_START],
   [show |-> "charge_control_end_threshold_show",
    store |-> "charge_control_end_threshold_store",
    offset |-> MSI_EC_CHARGE_CONTROL_OFFSET_END]}

InChargeRange(n) ==
  n >= MSI_EC_CHARGE_CONTROL_RANGE_MIN /\ n <= MSI_EC_CHARGE_CONTROL_RANGE_MAX

\* C3: for the start and the end threshold and every v in 0..100, set(v)
\* issues its write (and succeeds when the write does) if and only if
\* v + offset lies in [RANGE_MIN, RANGE_MAX], and a get that follows a
\* successful set(v) returns exactly v.
C3_ThresholdRoundTrip ==
  \A r \in ThresholdRoles, v \in 0..100 :
    /\ (op = r.store /\ NumberOf(arg, v)) =>
         IF InChargeRange(v + r.offset)
         THEN /\ Len(xfer) = 1
              /\ xfer[1] = Wr(MSI_EC_CHARGE_CONTROL_ADDRESS, v + r.offset, xfer[1].rc)
              /\ ret = (IF xfer[1].rc = 0 THEN Len(arg) ELSE xfer[1].rc)
         ELSE ret = -EINVAL /\ xfer = <<>>
    /\ (op = r.show /\ prior.op = r.store /\ NumberOf(prior.arg, v) /\ OneOk) =>
         (ret > 0 /\ out = Digits(v) \o <<NL>>)

\* The end threshold was set to 60 and reads back as 60.
C3_Witness ==
  /\ op = "charge_control_end_threshold_show"
  /\ prior.op = "charge_control_end_threshold_store"
  /\ prior.arg = Digits(60)
  /\ out = Digits(60) \o <<NL>>

StartReads(e) == charge_control_start_threshold_show(e, 0).out
EndReads(e) == charge_control_end_threshold_show(e, 0).out

\* C5 as claimed: a successful set of one threshold leaves the value get
\* returns for the other threshold unchanged.
C5_OtherThresholdUnchanged ==
  [][/\ (op' = "charge_control_start_threshold_store" /\ ret' > 0) =>
          EndReads(ec') = EndReads(ec)
     /\ (op' = "charge_control_end_threshold_store" /\ ret' > 0) =>
          StartReads(ec') = StartReads(ec)]_vars

\* C5 amended: both thresholds are views of the one byte at
\* MSI_EC_CHARGE_CONTROL_ADDRESS: a get of one threshold that follows a
\* successful set(v) of the other returns the byte written, v + the setter's
\* offset, minus the getter's offset.
C5_ThresholdsShareByte ==
  \A r \in ThresholdRoles, w \in ThresholdRoles, v \in 0..MaxNum :
    (op = r.show /\ prior.op = w.store /\ NumberOf(prior.arg, v) /\ OneOk) =>
      /\ xfer[1].a = MSI_EC_CHARGE_CONTROL_ADDRESS
      /\ xfer[1].v = v + w.offset
      /\ out = FmtInt(v + w.offset - r.offset) \o <<NL>>

\* The start threshold was set to 5, and the end threshold then reads 15.
C5_Witness ==
  /\ op = "charge_control_end_threshold_show"
  /\ prior.op = "charge_control_start_threshold_store"
  /\ prior.arg = Digits(5)
  /\ out = Digits(15) \o <<NL>>

\* C6: basic_fan_speed rejects every number above 100 before the transport,
\* writes for every p in 0..100, and a get that follows a successful set(p)
\* returns q with |q - p| <= 1.
C6_FanSpeedRoundTrip ==
  /\ \A v \in 101..MaxNum :
       (op = "cpu_basic_fan_speed_store" /\ NumberOf(arg, v)) =>
         (ret < 0 /\ xfer = <<>>)
  /\ \A p \in 0..100 :
       /\ (op = "cpu_basic_fan_speed_store" /\ NumberOf(arg, p)) =>
            /\ Len(xfer) = 1
            /\ ret = (IF xfer[1].rc = 0 THEN Len(arg) ELSE xfer[1].rc)
       /\ (/\ op = "cpu_basic_fan_speed_show"
           /\ prior.op = "cpu_basic_fan_speed_store"
           /\ NumberOf(prior.arg, p)
           /\ OneOk) =>
            /\ ret > 0
            /\ \E q \in {p - 1, p, p + 1} : q >= 0 /\ out = Digits(q) \o <<NL>>

\* basic_fan_speed was set to 33 and reads back as 32.
C6_Witness ==
  /\ op = "cpu_basic_fan_speed_show"
  /\ prior.op = "cpu_basic_fan_speed_store"
  /\ prior.arg = Digits(33)
  /\ out = Digits(32) \o <<NL>>

ScaledAttrs ==
  {[show |-> "cpu_realtime_fan_speed_show",
    addr |-> MSI_EC_CPU_REALTIME_FAN_SPEED_ADDRESS,
    min |-> MSI_EC_CPU_REALTIME_FAN_SPEED_BASE_MIN,
    max |-> MSI_EC_CPU_REALTIME_FAN_SPEED_BASE_MAX],
   [show |-> "cpu_basic_fan_speed_show",
    addr |-> MSI_EC_CPU_BASIC_FAN_SPEED_ADDRESS,
    min |-> MSI_EC_CPU_BASIC_FAN_SPEED_BASE_MIN,
    max |-> MSI_EC_CPU_BASIC_FAN_SPEED_BASE_MAX]}

\* C7: a scaled get whose read succeeds returns, for a byte x in
\* [BASE_MIN, BASE_MAX], the largest integer q with
\* q * (BASE_MAX - BASE_MIN) <= 100 * (x - BASE_MIN), and fails with no
\* percentage for any other byte; with the base range [0, 150] the byte 75
\* reads as 50 and set(50) writes 75 to the same register.
C7_ScaledDecode ==
  /\ \A t \in ScaledAttrs :
       (op = t.show /\ OneOk) =>
         LET x == ec[t.addr]
         IN IF x >= t.min /\ x <= t.max
            THEN /\ ret > 0
                 /\ \E q \in 0..100 :
                      /\ out = Digits(q) \o <<NL>>
                      /\ q * (t.max - t.min) <= 100 * (x - t.min)
                      /\ (q + 1) * (t.max - t.min) > 100 * (x - t.min)
            ELSE ret = -EINVAL /\ out = <<>>
  /\ (op = "cpu_basic_fan_speed_show" /\ OneOk /\
      ec[MSI_EC_CPU_BASIC_FAN_SPEED_ADDRESS] = 75) => out = Digits(50) \o <<NL>>
  /\ (op = "cpu_basic_fan_speed_store" /\ NumberOf(arg, 50)) =>
       /\ Len(xfer) = 1
       /\ xfer[1] = Wr(MSI_EC_CPU_BASIC_FAN_SPEED_ADDRESS, 75, xfer[1].rc)

\* basic_fan_speed holds 0x4B and reads as 50.
C7_Witness ==
  /\ op = "cpu_basic_fan_speed_show"
  /\ ec[MSI_EC_CPU_BASIC_FAN_SPEED_ADDRESS] = 75
  /\ out = Digits(50) \o <<NL>>

\* C9 as claimed: whenever a transport call issued by the last operation
\* returned a fault, the operation returned that fault.
C9_FaultsPropagated ==
  \A i \in 1..Len(xfer) : xfer[i].rc < 0 => ret = xfer[i].rc

\* Every operation other than kbd_bl_sysfs_get returns the fault of the
\* transport call that failed.
FaultsPropagatedExceptKbdGet ==
  op # "kbd_bl_sysfs_get" => C9_FaultsPropagated

\* kbd_bl_sysfs_get reports brightness 0 after its read faulted.
KbdGetSwallowsFault ==
  /\ op = "kbd_bl_sysfs_get"
  /\ Len(xfer) = 1
  /\ xfer[1].rc < 0
  /\ ret = 0

\* The text a is a decimal numeral of v: optional '+', optional leading
\* zeros, optional final newline.
Numeral(a, v) ==
  \E core \in {Digits(v), <<43>> \o Digits(v), <<48, 48>> \o Digits(v)} :
    a = core \/ a = core \o <<NL>>

\* The legal domain of each read-write attribute.
Legal(o, a) ==
  \/ \E t \in EnumTable : o = t.store /\ \E c \in t.codes : StripNL(a) = c[1]
  \/ \E r \in ThresholdRoles :
       o = r.store /\ \E v \in 0..100 : Numeral(a, v) /\ InChargeRange(v + r.offset)
  \/ o = "cpu_basic_fan_speed_store" /\ \E v \in 0..100 : Numeral(a, v)
  \/ o = "kbd_bl_sysfs_set" /\ a \in 0..3

ReadWriteSets ==
  {t.store : t \in EnumTable} \cup {r.store : r \in ThresholdRoles} \cup
  {"cpu_basic_fan_speed_store", "kbd_bl_sysfs_set"}

\* C10: a set of a read-write attribute with an input outside the
\* attribute's legal domain returns an error, issues no transport read and
\* no transport write, and leaves the register space unchanged.
C10_ValidationPrecedesTransport ==
  [][(op' \in ReadWriteSets /\ ~Legal(op', arg')) =>
       (ret' < 0 /\ xfer' = <<>> /\ ec' = ec)]_vars

\* kbd_bl_sysfs_set refused brightness 4 without a transport call, and
\* cpu_basic_fan_speed_store refused "101" likewise.
C10_Witness ==
  /\ xfer = <<>>
  /\ ret < 0
  /\ \/ op = "kbd_bl_sysfs_set" /\ arg = 4
     \/ op = "cpu_basic_fan_speed_store" /\ arg = Digits(101)

GarbageDateShown ==
  /\ op = "fw_release_date_show"
  /\ ~IsDigit(ec[MSI_EC_FW_DATE_ADDRESS])
  /\ ~IsSpace(ec[MSI_EC_FW_DATE_ADDRESS])
  /\ ret > 0

ReadOnlyAttrs ==
  {"fw_version", "fw_release_date", "cpu/realtime_temperature",
   "cpu/realtime_fan_speed", "gpu/realtime_temperature",
   "gpu/realtime_fan_speed"}

\* C11: a write to a read-only attribute (fw_version, fw_release_date, cpu
\* and gpu realtime_temperature and realtime_fan_speed) fails with the
\* access fault -EACCES for every input, issues no transport read or write
\* and leaves the registers unchanged.
C11_ReadOnlySetFails ==
  [][(op' = "sysfs_store" /\ arg'.attr \in ReadOnlyAttrs) =>
       (ret' = -EACCES /\ xfer' = <<>> /\ out' = <<>> /\ ec' = ec)]_vars

\* "on" written to fw_version was refused without a transport call.
C11_Witness ==
  /\ op = "sysfs_store"
  /\ arg = [attr |-> "fw_version", buf |-> s_on]
  /\ ret = -EACCES
  /\ xfer = <<>>

\* One run of ec_read_seq(base, len) against the answers pat: the reads x go
\* to base, base + 1, ... in that order, each takes the next answer, none
\* follows a fault, and the run is len reads long unless its last read
\* faulted.
SeqRun(x, base, len, pat) ==
  /\ Len(x) <= len
  /\ \A i \in 1..Len(x) : x[i].k = "r" /\ x[i].a = base + i - 1 /\ x[i].rc = pat[i]
  /\ \A i \in 1..(Len(x) - 1) : x[i].rc = 0
  /\ Len(x) < len => (x # <<>> /\ x[Len(x)].rc < 0)

\* The fault a run ended with, 0 if it ended without one.
RunFault(x) == IF x # <<>> /\ x[Len(x)].rc < 0 THEN x[Len(x)].rc ELSE 0

\* C12: every ec_read_seq(base, length) run reads base, base + 1, ... in
\* ascending order, stops at the first read that faults and returns that
\* fault's code, issues at most length reads (exactly length when none
\* faults), and reads no address twice.
C12_SeqReadOrder ==
  /\ op = "fw_version_show" =>
       /\ SeqRun(xfer, MSI_EC_FW_VERSION_ADDRESS, MSI_EC_FW_VERSION_LENGTH, plan)
       /\ RunFault(xfer) < 0 => ret = RunFault(xfer)
       /\ RunFault(xfer) = 0 => Len(xfer) = MSI_EC_FW_VERSION_LENGTH /\ ret > 0
  /\ op = "fw_release_date_show" =>
       LET n == IF Len(xfer) < MSI_EC_FW_DATE_LENGTH THEN Len(xfer)
                ELSE MSI_EC_FW_DATE_LENGTH
           d == SubSeq(xfer, 1, n)
           t == SubSeq(xfer, n + 1, Len(xfer))
       IN /\ SeqRun(d, MSI_EC_FW_DATE_ADDRESS, MSI_EC_FW_DATE_LENGTH, plan)
          /\ RunFault(d) < 0 => (t = <<>> /\ ret = RunFault(d))
          /\ RunFault(d) = 0 =>
               /\ SeqRun(t, MSI_EC_FW_TIME_ADDRESS, MSI_EC_FW_TIME_LENGTH,
                         SubSeq(plan, MSI_EC_FW_DATE_LENGTH + 1, Len(plan)))
               /\ RunFault(t) < 0 => ret = RunFault(t)
               /\ RunFault(t) = 0 => Len(t) = MSI_EC_FW_TIME_LENGTH /\ ret > 0

\* fw_release_date: the date was read whole, the third read of the time
\* faulted, and the run stopped there with that fault.
C12_Witness ==
  /\ op = "fw_release_date_show"
  /\ Len(xfer) = MSI_EC_FW_DATE_LENGTH + 3
  /\ xfer[Len(xfer)].a = MSI_EC_FW_TIME_ADDRESS + 2
  /\ xfer[Len(xfer)].rc = -ETIME
  /\ ret = -ETIME

\* The register each set writes.
OwnRegister(o) ==
  IF \E t \in EnumTable : o = t.store
  THEN (CHOOSE t \in EnumTable : o = t.store).addr
  ELSE CASE o \in {r.store : r \in ThresholdRoles} -> MSI_EC_CHARGE_CONTROL_ADDRESS
         [] o = "cpu_basic_fan_speed_store" -> MSI_EC_CPU_BASIC_FAN_SPEED_ADDRESS
         [] o = "micmute_led_sysfs_set" -> MSI_EC_LED_MICMUTE_ADDRESS
         [] o = "mute_led_sysfs_set" -> MSI_EC_LED_MUTE_ADDRESS
         [] o = "kbd_bl_sysfs_set" -> MSI_EC_KBD_BL_ADDRESS

\* No transport call of x goes to an address an earlier call of x went to.
NoneReissued(x) ==
  \A i \in 1..Len(x), j \in 1..Len(x) : i < j => x[i].a # x[j].a

\* C13: every get issues only transport reads and leaves every register
\* unchanged; every set issues no read and at most one write, to the
\* attribute's own register, and leaves every other register unchanged; no
\* transport call, faulted or not, is issued a second time.
C13_IndependentTransactions ==
  [][/\ op' \in Gets =>
          /\ ec' = ec
          /\ \A i \in 1..Len(xfer') : xfer'[i].k = "r"
     /\ op' \in Sets =>
          /\ Len(xfer') <= 1
          /\ \A i \in 1..Len(xfer') :
               xfer'[i].k = "w" /\ xfer'[i].a = OwnRegister(op')
          /\ \A a \in Addr \ {OwnRegister(op')} : ec'[a] = ec[a]
     /\ op' # "none" => NoneReissued(xfer')]_vars

\* shift_mode_store wrote "eco" to its register with one write, which
\* faulted, and returned without another transport call.
C13_Witness ==
  /\ op = "shift_mode_store"
  /\ arg = s_eco
  /\ xfer = <<Wr(MSI_EC_SHIFT_MODE_ADDRESS, MSI_EC_SHIFT_MODE_ECO, -ETIME)>>
  /\ ret = -ETIME

\* The level of a register byte: its two low bits.
Level(b) == b % (MSI_EC_KBD_BL_STATE_MASK + 1)

\* C14: a keyboard backlight get whose read succeeds returns the register
\* byte masked with the level mask, a level in 0..3; a set of a level in
\* 0..3 writes that level's documented code, and of any other level fails
\* without a transport write; a get that follows a successful set(l)
\* returns l.
C14_KbdBacklightCodec ==
  /\ (op = "kbd_bl_sysfs_get" /\ OneOk) =>
       /\ xfer[1] = Rd(MSI_EC_KBD_BL_ADDRESS, ec[MSI_EC_KBD_BL_ADDRESS], 0)
       /\ ret = Level(ec[MSI_EC_KBD_BL_ADDRESS])
       /\ ret \in 0..3
       /\ prior.op = "kbd_bl_sysfs_set" => ret = prior.arg
  /\ op = "kbd_bl_sysfs_set" =>
       IF arg \in 0..3
       THEN /\ Len(xfer) = 1
            /\ xfer[1] = Wr(MSI_EC_KBD_BL_ADDRESS, MSI_EC_KBD_BL_STATE[arg + 1],
                            xfer[1].rc)
            /\ ret = xfer[1].rc
       ELSE ret < 0 /\ xfer = <<>>

\* The backlight was set to level 2 and the get that follows returns 2.
C14_Witness ==
  /\ op = "kbd_bl_sysfs_get"
  /\ prior = [op |-> "kbd_bl_sysfs_set", arg |-> 2]
  /\ OneOk
  /\ ret = 2

KeyShows == {"fn_key_show", "win_key_show"}
KeyStores == {"fn_key_store", "win_key_store"}

\* C16: fn_key and win_key are two views of the register at
\* MSI_EC_FN_WIN_ADDRESS: a get of either reads that register and no other,
\* a successful set of either writes that register, and the get of either
\* that follows a successful set of the other decodes the byte that set
\* wrote.
C16_FnWinShareRegister ==
  /\ (op \in KeyShows /\ xfer # <<>>) =>
       /\ Len(xfer) = 1
       /\ xfer[1].k = "r"
       /\ xfer[1].a = MSI_EC_FN_WIN_ADDRESS
       /\ xfer[1].rc = 0 => xfer[1].v = ec[MSI_EC_FN_WIN_ADDRESS]
  /\ (op \in KeyStores /\ ret > 0) =>
       /\ Len(xfer) = 1
       /\ xfer[1].k = "w"
       /\ xfer[1].a = MSI_EC_FN_WIN_ADDRESS
       /\ ec[MSI_EC_FN_WIN_ADDRESS] = xfer[1].v
  /\ \A t \in EnumTable, u \in EnumTable :
       \A c \in u.codes :
         (/\ t.show \in KeyShows
          /\ u.store \in KeyStores
          /\ op = t.show
          /\ prior.op = u.store
          /\ StripNL(prior.arg) = c[1]
          /\ OneOk) =>
           /\ xfer[1].v = c[2]
           /\ \A d \in t.codes : d[2] = c[2] => out = d[1] \o <<NL>>
           /\ (\A d \in t.codes : d[2] # c[2]) => out = UnknownText(c[2])

\* fn_key was set to "left", and win_key then reads "right".
C16_Witness ==
  /\ op = "win_key_show"
  /\ prior = [op |-> "fn_key_store", arg |-> s_left]
  /\ out = s_right \o <<NL>>

\* Nothing of the module is registered with the kernel.
NothingRegistered ==
  /\ ~mod.driver
  /\ mod.device # "added"
  /\ ~mod.hook
  /\ mod.leds = {}

\* C17: when msi_ec_init has returned an error (ACPI disabled, driver
\* registration failed, device allocation failed, device add failed) the
\* platform driver is not registered, the platform device is not added and
\* no battery hook or LED device is registered; after a successful
\* msi_ec_init followed by msi_ec_exit the driver, the device, the hook and
\* the three LED devices are unregistered.
C17_LifecycleLeavesNothing ==
  /\ mod.state = "failed" => (mod.ret < 0 /\ NothingRegistered)
  /\ mod.state = "exited" => NothingRegistered
  /\ mod.state = "loaded" => (mod.ret = 0 /\ mod.driver /\ mod.device = "added")

\* msi_ec_init failed with -ENOMEM after it had registered the driver.
C17_Witness ==
  /\ mod.state = "failed"
  /\ mod.ret = -ENOMEM
  /\ ~mod.driver

\* msi_ec_exit ran after a successful msi_ec_init.
ExitedWitness == mod.state = "exited" /\ NothingRegistered

\* The get has returned successfully.
RaceDone == race.pc = "done" /\ race.result > 0

\* The bytes of the date and time fields in the registers e, and the bytes
\* the reader collected.
FieldBytes(e) ==
  [j \in 1..(MSI_EC_FW_DATE_LENGTH + MSI_EC_FW_TIME_LENGTH) |->
     IF j <= MSI_EC_FW_DATE_LENGTH THEN e[MSI_EC_FW_DATE_ADDRESS + j - 1]
     ELSE e[MSI_EC_FW_TIME_ADDRESS + j - MSI_EC_FW_DATE_LENGTH - 1]]
ReadBytes ==
  [j \in 1..(MSI_EC_FW_DATE_LENGTH + MSI_EC_FW_TIME_LENGTH) |->
     IF j <= MSI_EC_FW_DATE_LENGTH THEN race.rdate[j]
     ELSE race.rtime[j - MSI_EC_FW_DATE_LENGTH]]

\* The registers after the first k concurrent writes.
RECURSIVE AfterWrites(_)
AfterWrites(k) ==
  IF k = 0 THEN race.before
  ELSE [AfterWrites(k - 1) EXCEPT ![race.writes[k].a] = race.writes[k].v]

\* The write landed after the reader's first read and before the read of
\* the register it changes.
LandedMidRead(w) ==
  /\ w.at >= 1
  /\ w.at <= (IF w.a < MSI_EC_FW_DATE_ADDRESS + MSI_EC_FW_DATE_LENGTH
              THEN w.a - MSI_EC_FW_DATE_ADDRESS
              ELSE MSI_EC_FW_DATE_LENGTH + w.a - MSI_EC_FW_TIME_ADDRESS)

\* C15 as claimed: a single-register write that changes a register of the
\* range and lands between two reads of a successful get makes the get
\* return a byte sequence equal neither to the contents before the write
\* nor to the contents after it.
C15_SingleWriteTearsRead ==
  (/\ RaceDone
   /\ Len(race.writes) = 1
   /\ LandedMidRead(race.writes[1])
   /\ race.before[race.writes[1].a] # race.writes[1].v) =>
    (ReadBytes # FieldBytes(race.before) /\ ReadBytes # FieldBytes(AfterWrites(1)))

\* C15 amended: the driver takes no lock, so another caller's write can land
\* between any two reads of a multi-register get; a successful get that one
\* single-register write overlaps still returns either the contents before
\* that write or the contents after it, never a mix of the two.
C15_SingleWriteNeverTears ==
  /\ (race.pc \in {"date", "time"} /\ race.writes = <<>>) => ENABLED ConcurrentWrite
  /\ (RaceDone /\ Len(race.writes) <= 1) =>
       /\ ReadBytes \in {FieldBytes(race.before), FieldBytes(ec)}
       /\ ec = AfterWrites(Len(race.writes))

\* One write landed between two reads, and the get returned the contents
\* after it, which differ from the contents before.
C15_Witness ==
  /\ RaceDone
  /\ Len(race.writes) = 1
  /\ LandedMidRead(race.writes[1])
  /\ ReadBytes = FieldBytes(ec)
  /\ ReadBytes # FieldBytes(race.before)

\* Two single-register writes by two callers tear the read: the get returns
\* bytes the registers never held together.
TornByTwoWrites ==
  /\ RaceDone
  /\ Len(race.writes) = 2
  /\ \A k \in 0..2 : ReadBytes # FieldBytes(AfterWrites(k))

====
